---- MODULE Spec2Model ----
\* Lunara backend: the cycle-phase classifier (utils/helpers.js) and the
\* request pipeline of the protected routers (routes/health.js, routes/ai.js,
\* routes/users.js) over the Firestore collections (services/firestore.js).
EXTENDS Integers, Sequences, FiniteSets, TLC

\* ---------------------------------------------------------------- bounds
\* Documents the store generates ids for in one behaviour.
MaxDocs == 1
\* Largest clock value, in ticks, of the classifier specification.
MaxNow == 130
\* Clock ticks per day (the code works in milliseconds, 86400000 per day).
TicksPerDay == 2
\* Largest clock value, in ticks, of the rate-limiter specification.
MaxClock == 4
\* The limiter's window, in ticks (the code: 15 * 60 * 1000 ms), and the
\* requests it admits per window (the code: 100), scaled down.
WINDOW_SIZE == 2
MAX_REQUESTS == 2
\* Nutrition logs created in the nutrition specification.
MaxLogs == 2
\* The delay of timeoutHandler's timer, in ticks (the code: 30000 ms).
TIMEOUT == 2

\* ------------------------------------------------------- optional values
\* A JavaScript property that may be missing: << >> is undefined/missing,
\* <<v>> is the value v.
Absent == << >>
Some(v) == <<v>>
Has(x) == x # Absent
Val(x) == x[1]

\* NaN of a numeric computation is << >>, a number n is <<n>>.
NaN == << >>
\* n1 <= n2 on JavaScript numbers: every comparison with NaN is false.
JsLeq(x, n) == x # NaN /\ x[1] <= n

\* ------------------------------------------------------------- constants
CYCLE_PHASES ==
  [MENSTRUAL |-> "menstrual", FOLLICULAR |-> "follicular",
   OVULATION |-> "ovulation", LUTEAL |-> "luteal",
   NEW_CYCLE |-> "new_cycle", UNKNOWN |-> "unknown"]

DEFAULTS == [CYCLE_LENGTH |-> 28, PERIOD_DURATION |-> 5, DEFAULT_LIMIT |-> 50]

HTTP_STATUS ==
  [OK |-> 200, CREATED |-> 201, BAD_REQUEST |-> 400, UNAUTHORIZED |-> 401,
   FORBIDDEN |-> 403, NOT_FOUND |-> 404, INTERNAL_SERVER_ERROR |-> 500]

\* ------------------------------------------------------ date strings
\* A start_date/log_date as the client sends it: an ISO calendar date
\* (day number), a string Date cannot parse, or the empty string.
IsoDate(d) == [kind |-> "iso", day |-> d]
GarbageDate == [kind |-> "garbage", day |-> 0]
EmptyDate == [kind |-> "empty", day |-> 0]

\* new Date(s).getTime(): ticks since the epoch, NaN when unparseable.
DateGetTime(s) == IF s.kind = "iso" THEN <<s.day * TicksPerDay>> ELSE NaN

\* JavaScript truthiness of an optional date string ('' is falsy).
TruthyDate(x) == Has(x) /\ Val(x).kind # "empty"

\* x || dflt for an optional number (undefined and 0 are falsy).
OrDefault(x, dflt) == IF Has(x) /\ Val(x) # 0 THEN Val(x) ELSE dflt

\* ------------------------------------------------------------ variables
VARIABLES
  now,        \* the clock (new Date(), Date.now()), in ticks
  phaseIn,    \* classifier specification: the cycle argument
  phaseOut,   \* classifier specification: the result, "none" before the call
  phaseAgain, \* classifier specification: the argument and result of a second call
  db,         \* the Firestore collections: name -> (document id -> document)
  nextId,     \* the next document id add() generates
  initialized,\* FirebaseService.initialized
  dbHandle,   \* FirestoreService.db is not null
  aiAvailable,\* OpenAIService.isAvailable()
  resp,       \* the request being answered and its response, NoResp when idle
  creator,    \* history: collection -> (document id -> uid whose request created it)
  deleted,    \* history: the cycle ids a DELETE /cycles/:id was answered 200 for
  requests,   \* ipRateLimit's Map: ip -> [count, timestamp]
  limited,    \* the last request the limiter stage saw: [ip, url, status]
  passed,     \* history: ip -> the requests of ip the limiter admitted, [at, window]
  pending,    \* concurrent handlers: slot -> the request it is handling and its position
  conn        \* one request under timeoutHandler: its handler, timer and response

\* The variables of the classifier specification.
phaseVars == <<phaseIn, phaseOut, phaseAgain>>

vars == <<now, phaseIn, phaseOut, phaseAgain, db, nextId, initialized, dbHandle, aiAvailable, resp, creator, deleted,
         requests, limited, passed, pending, conn>>

\* The variables of the rate limiter.
limitVars == <<requests, limited, passed>>

\* The variables of the handlers in flight.
flightVars == <<pending, conn>>

\* No second call yet.
NoCall == [cycle |-> Absent, phase |-> "none"]

\* The variables of the store and the request pipeline.
storeVars == <<db, nextId, initialized, dbHandle, aiAvailable, resp, creator, deleted>>

\* ------------------------------------------------------ handlers in flight
\* The handlers that can be between two awaits at the same time.
Slots == {"h1", "h2"}

\* A slot that handles no request.
NoPending ==
  [route |-> "none", caller |-> "", id |-> 0, pc |-> "idle", status |-> 0, error |-> "",
   step |-> 0, batch |-> {}]

\* No request under the timeout handler.
NoConn ==
  [handler |-> "none", timer |-> "none", armedAt |-> 0, headersSent |-> FALSE,
   finished |-> FALSE, sent |-> << >>, refused |-> 0]

FlightInit ==
  /\ pending = [s \in Slots |-> NoPending]
  /\ conn = NoConn

\* ---------------------------------------------------------- rate limiter
\* The client addresses (req.ip).
Ips == {"ip1", "ip2"}

\* The limiter before its first request: an empty Map.
LimiterInit ==
  /\ requests = [k \in {} |-> 0]
  /\ limited = [ip |-> "", url |-> "", status |-> 0, prior |-> 0]
  /\ passed = [ip \in Ips |-> << >>]

\* ipRateLimit answering 429 one request late.
ipRateLimit_OneMore(reqs, ip, t) ==
  LET kept == {k \in DOMAIN reqs : ~(t - reqs[k].timestamp > WINDOW_SIZE)}
      found == IF ip \in kept THEN reqs[ip] ELSE [count |-> 0, timestamp |-> t]
      ipData == IF t - found.timestamp > WINDOW_SIZE
                THEN [count |-> 1, timestamp |-> t]
                ELSE [found EXCEPT !.count = @ + 1]
  IN  [requests |-> [k \in kept \cup {ip} |-> IF k = ip THEN ipData ELSE reqs[k]],
       window |-> ipData.timestamp,
       status |-> IF ipData.count > MAX_REQUESTS + 1 THEN 429 ELSE 0]

\* ipRateLimit moving the window start to every request it counts.
ipRateLimit_Sliding(reqs, ip, t) ==
  LET kept == {k \in DOMAIN reqs : ~(t - reqs[k].timestamp > WINDOW_SIZE)}
      found == IF ip \in kept THEN reqs[ip] ELSE [count |-> 0, timestamp |-> t]
      ipData == IF t - found.timestamp > WINDOW_SIZE
                THEN [count |-> 1, timestamp |-> t]
                ELSE [count |-> found.count + 1, timestamp |-> t]
  IN  [requests |-> [k \in kept \cup {ip} |-> IF k = ip THEN ipData ELSE reqs[k]],
       window |-> ipData.timestamp,
       status |-> IF ipData.count > MAX_REQUESTS THEN 429 ELSE 0]

\* ipRateLimit(req, res, next) of a request from ip at Date.now() = t, on
\* the Map reqs: the Map after it, the window the request was counted in,
\* and the status sent (429) or 0 when next() is called.
ipRateLimit(reqs, ip, t) ==
  LET kept == {k \in DOMAIN reqs : ~(t - reqs[k].timestamp > WINDOW_SIZE)}
      found == IF ip \in kept THEN reqs[ip] ELSE [count |-> 0, timestamp |-> t]
      ipData == IF t - found.timestamp > WINDOW_SIZE
                THEN [count |-> 1, timestamp |-> t]
                ELSE [found EXCEPT !.count = @ + 1]
  IN  [requests |-> [k \in kept \cup {ip} |-> IF k = ip THEN ipData ELSE reqs[k]],
       window |-> ipData.timestamp,
       status |-> IF ipData.count > MAX_REQUESTS THEN 429 ELSE 0]

\* ----------------------------------------------------- phase classifier
\* The elapsed days as a distance: Math.abs of the difference.
DaysSinceStart_Abs(start_date, t) ==
  LET s == IF Has(start_date) THEN DateGetTime(Val(start_date)) ELSE NaN
  IN  IF s = NaN THEN NaN
      ELSE <<(IF t >= s[1] THEN t - s[1] ELSE s[1] - t) \div TicksPerDay>>

\* Math.floor((new Date() - new Date(start_date)) / (1000*60*60*24)), for a
\* start_date property that may be undefined (new Date(undefined) is an
\* Invalid Date, its time NaN).
DaysSinceStart(start_date, t) ==
  LET s == IF Has(start_date) THEN DateGetTime(Val(start_date)) ELSE NaN
  IN  IF s = NaN THEN NaN ELSE <<(t - s[1]) \div TicksPerDay>>

\* The branch table with the follicular bound one day late.
PhaseOfDays_LateFollicular(cycle, t) ==
  LET daysSinceStart == DaysSinceStart(cycle.start_date, t)
      cycleLength == OrDefault(cycle.cycle_length, DEFAULTS.CYCLE_LENGTH)
      periodDuration == OrDefault(cycle.period_duration, DEFAULTS.PERIOD_DURATION)
  IN  IF JsLeq(daysSinceStart, periodDuration) THEN CYCLE_PHASES.MENSTRUAL
      ELSE IF JsLeq(daysSinceStart, 14) THEN CYCLE_PHASES.FOLLICULAR
      ELSE IF JsLeq(daysSinceStart, 15) THEN CYCLE_PHASES.OVULATION
      ELSE IF JsLeq(daysSinceStart, cycleLength) THEN CYCLE_PHASES.LUTEAL
      ELSE CYCLE_PHASES.NEW_CYCLE

\* The branch table of calculateCyclePhase on a cycle object that exists.
PhaseOfDays(cycle, t) ==
  LET daysSinceStart == DaysSinceStart(cycle.start_date, t)
      cycleLength == OrDefault(cycle.cycle_length, DEFAULTS.CYCLE_LENGTH)
      periodDuration == OrDefault(cycle.period_duration, DEFAULTS.PERIOD_DURATION)
  IN  IF JsLeq(daysSinceStart, periodDuration) THEN CYCLE_PHASES.MENSTRUAL
      ELSE IF JsLeq(daysSinceStart, 13) THEN CYCLE_PHASES.FOLLICULAR
      ELSE IF JsLeq(daysSinceStart, 15) THEN CYCLE_PHASES.OVULATION
      ELSE IF JsLeq(daysSinceStart, cycleLength) THEN CYCLE_PHASES.LUTEAL
      ELSE CYCLE_PHASES.NEW_CYCLE

\* calculateCyclePhase without the !cycle test: reading start_date of
\* null throws; "TypeError" stands for the thrown exception.
calculateCyclePhase_NoNullGuard(cycle, t) ==
  IF ~Has(cycle) THEN "TypeError"
  ELSE IF ~TruthyDate(Val(cycle).start_date) THEN CYCLE_PHASES.UNKNOWN
  ELSE PhaseOfDays(Val(cycle), t)

\* calculateCyclePhase without the !cycle.start_date test.
calculateCyclePhase_NoDateGuard(cycle, t) ==
  IF ~Has(cycle) THEN CYCLE_PHASES.UNKNOWN
  ELSE PhaseOfDays(Val(cycle), t)

\* calculateCyclePhase answering a stored current_phase when there is one.
calculateCyclePhase_TrustsStored(cycle, t) ==
  IF ~Has(cycle) THEN CYCLE_PHASES.UNKNOWN
  ELSE IF Has(Val(cycle).current_phase) THEN Val(Val(cycle).current_phase)
  ELSE IF ~TruthyDate(Val(cycle).start_date) THEN CYCLE_PHASES.UNKNOWN
  ELSE PhaseOfDays(Val(cycle), t)

\* calculateCyclePhase(cycle) evaluated at clock t. cycle is Absent for a
\* null/undefined argument.
calculateCyclePhase(cycle, t) ==
  IF ~Has(cycle) THEN CYCLE_PHASES.UNKNOWN
  ELSE IF ~TruthyDate(Val(cycle).start_date) THEN CYCLE_PHASES.UNKNOWN
  ELSE PhaseOfDays(Val(cycle), t)

\* ------------------------------------------------------------ principals
Uids == {"uA", "uB"}
EmailOf(u) == IF u = "uA" THEN "a@example.com" ELSE "b@example.com"
Emails == {EmailOf(u) : u \in Uids}

\* Bearer credentials: one valid ID token per principal and three tokens
\* the Firebase Admin SDK rejects.
Tokens == {"tokA", "tokB", "tokExpired", "tokInvalid", "tokNoProject"}

\* The Authorization header: missing, another scheme, 'Bearer ' followed by
\* a token (the empty token is "").
Headers ==
  {[kind |-> "none", token |-> ""], [kind |-> "basic", token |-> ""]}
  \cup {[kind |-> "bearer", token |-> t] : t \in Tokens \cup {""}}

NoUser == [uid |-> "", email |-> ""]

\* admin.auth().verifyIdToken(idToken) of the Firebase Admin SDK: the
\* decoded token, or a FirebaseAuthError carrying a code.
AdminVerifyIdToken(idToken) ==
  CASE idToken = "tokA" -> [ok |-> TRUE, uid |-> "uA", email |-> EmailOf("uA"), code |-> ""]
    [] idToken = "tokB" -> [ok |-> TRUE, uid |-> "uB", email |-> EmailOf("uB"), code |-> ""]
    [] idToken = "tokExpired" -> [ok |-> FALSE, uid |-> "", email |-> "", code |-> "auth/id-token-expired"]
    [] idToken = "tokNoProject" -> [ok |-> FALSE, uid |-> "", email |-> "", code |-> "auth/project-not-found"]
    [] OTHER -> [ok |-> FALSE, uid |-> "", email |-> "", code |-> "auth/invalid-id-token"]

\* verifyIdToken letting the SDK's error through with its code.
verifyIdToken_KeepsCode(idToken) ==
  IF ~initialized THEN [ok |-> FALSE, uid |-> "", email |-> "", code |-> ""]
  ELSE AdminVerifyIdToken(idToken)

\* FirebaseService.verifyIdToken: every failure, the SDK's and 'Firebase not
\* initialized', is rethrown as new Error('Invalid or expired token'), an
\* Error without a code.
verifyIdToken(idToken) ==
  LET thrown == [ok |-> FALSE, uid |-> "", email |-> "", code |-> ""]
  IN  IF ~initialized THEN thrown
      ELSE LET decodedToken == AdminVerifyIdToken(idToken)
           IN  IF decodedToken.ok THEN decodedToken ELSE thrown

\* ------------------------------------------------------------- responses
\* A response body's data is a set of [coll, id, doc] entries: the documents
\* the body carries (none for data: null).
\* A property a body does not have is "" (error, message), 0 (statusCode) or
\* {} (data). timestamp is new Date().toISOString(): the clock reading.
formatErrorResponse(message, statusCode) ==
  [success |-> FALSE, error |-> message, message |-> "", statusCode |-> statusCode,
   data |-> {}, timestamp |-> Some(now)]

formatSuccessResponse(data, message) ==
  [success |-> TRUE, error |-> "", message |-> message, statusCode |-> 0, data |-> data,
   timestamp |-> Some(now)]

\* s.includes(sub) on strings
Contains(s, sub) ==
  \E i \in 1..(Len(s) - Len(sub) + 1) : SubSeq(s, i, i + Len(sub) - 1) = sub

\* res.status(status).json(body)
Send(status, body) == [status |-> status, body |-> body]

\* A middleware's outcome: it calls next() (with the user it attached to the
\* request), or it has sent res.
Next_(user) == [next |-> TRUE, user |-> user, res |-> Send(0, formatSuccessResponse({}, ""))]
Stop(res) == [next |-> FALSE, user |-> NoUser, res |-> res]

\* ------------------------------------------------------- auth middleware
\* authenticateUser letting a request without a Bearer header through with
\* no user attached, as optionalAuth does.
authenticateUser_Optional(hdr) ==
  IF hdr.kind # "bearer" \/ hdr.token = "" THEN Next_(NoUser)
  ELSE LET decodedToken == verifyIdToken(hdr.token)
       IN  IF decodedToken.ok
           THEN Next_([uid |-> decodedToken.uid, email |-> decodedToken.email])
           ELSE Stop(Send(HTTP_STATUS.UNAUTHORIZED, formatErrorResponse(
                  "Invalid or expired token", HTTP_STATUS.UNAUTHORIZED)))

authenticateUser(hdr) ==
  IF hdr.kind # "bearer"
  THEN Stop(Send(HTTP_STATUS.UNAUTHORIZED, formatErrorResponse(
         "Firebase token required. Please include Authorization header with Bearer token.",
         HTTP_STATUS.UNAUTHORIZED)))
  ELSE IF hdr.token = ""
  THEN Stop(Send(HTTP_STATUS.UNAUTHORIZED, formatErrorResponse(
         "Invalid token format. Token cannot be empty.", HTTP_STATUS.UNAUTHORIZED)))
  ELSE LET decodedToken == verifyIdToken(hdr.token)
       IN  IF decodedToken.ok
           THEN Next_([uid |-> decodedToken.uid, email |-> decodedToken.email])
           ELSE LET errorMessage ==
                      CASE decodedToken.code = "auth/id-token-expired" ->
                             "Token has expired. Please login again."
                        [] decodedToken.code = "auth/invalid-id-token" ->
                             "Invalid token format. Please provide a valid Firebase token."
                        [] decodedToken.code = "auth/project-not-found" ->
                             "Firebase project configuration error"
                        [] OTHER -> "Invalid or expired token"
                    statusCode ==
                      IF decodedToken.code = "auth/project-not-found"
                      THEN HTTP_STATUS.INTERNAL_SERVER_ERROR
                      ELSE HTTP_STATUS.UNAUTHORIZED
                IN  Stop(Send(statusCode, formatErrorResponse(errorMessage, statusCode)))

validateUserAccess(user) ==
  IF user.uid = ""
  THEN Stop(Send(HTTP_STATUS.UNAUTHORIZED, formatErrorResponse(
         "User authentication required", HTTP_STATUS.UNAUTHORIZED)))
  ELSE Next_(user)

\* ------------------------------------------------------------ the store
Collections ==
  {"cycles", "nutrition_logs", "fitness_logs", "mental_health_logs",
   "ai_insights", "user_profiles", "user_settings"}

\* Document ids add() generates. They are handed out in creation order, so
\* within a collection a larger id is a later created_at.
Ids == 1..MaxDocs
\* The :id of a request: a generated (or not yet generated) id, or 0, an id
\* string outside the pattern validateObjectId accepts.
RequestIds == 0..MaxDocs

EmptyColl == [i \in {} |-> 0]

\* {...a, ...b} restricted to the modelled fields: b's fields win.
Spread(a, b) == [f \in DOMAIN a |-> IF Has(b[f]) THEN b[f] ELSE a[f]]

\* collection(coll).add(doc)
StoreAdd(d, coll, id, doc) == [d EXCEPT ![coll] = @ @@ (id :> doc)]
\* collection(coll).doc(id).update(fields), on a document that exists
StoreUpdate(d, coll, id, fields) == [d EXCEPT ![coll][id] = Spread(@, fields)]
\* collection(coll).doc(id).delete()
StoreDelete(d, coll, id) ==
  [d EXCEPT ![coll] = [i \in (DOMAIN @) \ {id} |-> @[i]]]

Entry(coll, id, doc) == [coll |-> coll, id |-> id, doc |-> doc]

\* The first k elements of S in descending order of key (a function on S
\* with distinct values).
TopK(S, k, key) == {x \in S : Cardinality({y \in S : key[y] > key[x]}) < k}

\* The query without its where('user_id', '==', userId).
QueryByUser_NoWhere(coll, userId, limit) ==
  {Entry(coll, i, db[coll][i]) : i \in TopK(DOMAIN db[coll], limit, [i \in DOMAIN db[coll] |-> i])}

\* .where('user_id', '==', userId).orderBy('created_at', 'desc').limit(limit)
QueryByUser(coll, userId, limit) ==
  LET mine == {i \in DOMAIN db[coll] : db[coll][i].user_id = Some(userId)}
  IN  {Entry(coll, i, db[coll][i]) : i \in TopK(mine, limit, [i \in mine |-> i])}

\* An outcome of a request: the response, the store after it, the calls made
\* to the store and to the LLM, whether a route handler was entered, and the
\* message of the error a store call of the handler threw, if one did.
Out(res, d, n, sc, lc) ==
  [res |-> res, db |-> d, nextId |-> n, storeCalls |-> sc, llmCalls |-> lc, entered |-> TRUE,
   thrown |-> Absent]
Rejected(res) ==
  [res |-> res, db |-> db, nextId |-> nextId, storeCalls |-> 0, llmCalls |-> 0, entered |-> FALSE,
   thrown |-> Absent]

DbUnavailable ==
  Out(Send(HTTP_STATUS.INTERNAL_SERVER_ERROR, formatErrorResponse(
        "Database service unavailable", HTTP_STATUS.INTERNAL_SERVER_ERROR)), db, nextId, 0, 0)

\* router.use(authenticateUser); router.use(validateUserAccess): the two
\* middlewares every request to a protected router passes before any route
\* of the router is matched.
RouterAuth(hdr) ==
  LET a == authenticateUser(hdr)
  IN  IF ~a.next THEN a ELSE validateUserAccess(a.user)

\* --------------------------------------------------- validation middleware
dangerousFields == {"_id", "id", "user_id", "created_at", "updated_at"}

\* sanitizeRequestBody with user_id missing from dangerousFields.
sanitizeRequestBody_KeepsUserId(body) ==
  [f \in DOMAIN body |-> IF f \in dangerousFields \ {"user_id"} THEN Absent ELSE body[f]]

sanitizeRequestBody(body) ==
  [f \in DOMAIN body |-> IF f \in dangerousFields THEN Absent ELSE body[f]]

BadRequest(message) ==
  Stop(Send(HTTP_STATUS.BAD_REQUEST, formatErrorResponse(message, HTTP_STATUS.BAD_REQUEST)))

validateCycleData(body) ==
  IF ~TruthyDate(body.start_date)
  THEN BadRequest("Missing required fields: start_date")
  ELSE IF DateGetTime(Val(body.start_date)) = NaN
  THEN BadRequest("Invalid start_date format. Please use ISO date format (YYYY-MM-DD)")
  ELSE IF Has(body.cycle_length) /\ Val(body.cycle_length) # 0
          /\ (Val(body.cycle_length) < 21 \/ Val(body.cycle_length) > 35)
  THEN BadRequest("cycle_length must be between 21 and 35 days")
  ELSE IF Has(body.period_duration) /\ Val(body.period_duration) # 0
          /\ (Val(body.period_duration) < 2 \/ Val(body.period_duration) > 8)
  THEN BadRequest("period_duration must be between 2 and 8 days")
  ELSE Next_(NoUser)

validateObjectId(id) ==
  IF id = 0 THEN BadRequest("Invalid id format") ELSE Next_(NoUser)

\* query.limit is Absent or the number the string parses to.
validateQueryParams(query) ==
  IF Has(query.limit) /\ (Val(query.limit) < 1 \/ Val(query.limit) > 100)
  THEN BadRequest("limit must be a number between 1 and 100")
  ELSE IF Has(query.date) /\ DateGetTime(Val(query.date)) = NaN
  THEN BadRequest("Invalid date format. Please use YYYY-MM-DD format")
  ELSE Next_(NoUser)

\* ------------------------------------------------------ FirestoreService
\* getCycles: .where('user_id','==',userId).orderBy('start_date','desc')
\* .limit(limit); equal start dates are ordered by document id.
getCycles(userId, limit) ==
  LET mine == {i \in DOMAIN db.cycles : db.cycles[i].user_id = Some(userId)}
      key == [i \in mine |-> Val(db.cycles[i].start_date).day * (MaxDocs + 1) + i]
  IN  {Entry("cycles", i, db.cycles[i]) : i \in TopK(mine, limit, key)}

\* saveCycle stores {user_id: userId, ...cycleData, created_at, updated_at}
saveCycleDoc(userId, cycleData) ==
  Spread([f \in DOMAIN cycleData |-> IF f = "user_id" THEN Some(userId) ELSE Absent], cycleData)

\* current_phase of a cycle object, as the routes attach it
WithPhase(cycle) == [cycle EXCEPT !.current_phase = Some(calculateCyclePhase(Some(cycle), now))]

\* ----------------------------------------------------------- /cycles routes
getCyclesRoute(user, in) ==
  LET q == validateQueryParams(in.query)
      limit == IF Has(in.query.limit) THEN Val(in.query.limit) ELSE 50
  IN  IF ~q.next THEN Rejected(q.res)
      ELSE IF ~dbHandle THEN DbUnavailable
      ELSE LET cycles == getCycles(user.uid, limit)
               cyclesWithPhase == {Entry(e.coll, e.id, WithPhase(e.doc)) : e \in cycles}
           IN  Out(Send(HTTP_STATUS.OK,
                        formatSuccessResponse(cyclesWithPhase, "Cycles retrieved successfully")),
                   db, nextId, 1, 0)

postCyclesRoute(user, in) ==
  LET body == sanitizeRequestBody(in.body)
      v == validateCycleData(body)
      cycleData == [body EXCEPT !.user_id = Some(user.uid)]
  IN  IF ~v.next THEN Rejected(v.res)
      ELSE IF ~dbHandle THEN DbUnavailable
      ELSE Out(Send(HTTP_STATUS.CREATED,
                    formatSuccessResponse({Entry("cycles", nextId, WithPhase(cycleData))},
                                          "Cycle created successfully")),
               StoreAdd(db, "cycles", nextId, saveCycleDoc(user.uid, cycleData)),
               nextId + 1, 1, 0)

NotFound(message, sc) ==
  Out(Send(HTTP_STATUS.NOT_FOUND, formatErrorResponse(message, HTTP_STATUS.NOT_FOUND)),
      db, nextId, sc, 0)
Forbidden(message, sc) ==
  Out(Send(HTTP_STATUS.FORBIDDEN, formatErrorResponse(message, HTTP_STATUS.FORBIDDEN)),
      db, nextId, sc, 0)

getCycleByIdRoute(user, in) ==
  LET id == in.id
      p == validateObjectId(id)
  IN  IF ~p.next THEN Rejected(p.res)
      ELSE IF ~dbHandle THEN DbUnavailable
      ELSE IF id \notin DOMAIN db.cycles THEN NotFound("Cycle not found", 1)
      ELSE IF db.cycles[id].user_id # Some(user.uid)
      THEN Forbidden("Access denied to this cycle", 1)
      ELSE Out(Send(HTTP_STATUS.OK,
                    formatSuccessResponse({Entry("cycles", id, WithPhase(db.cycles[id]))},
                                          "Cycle retrieved successfully")),
               db, nextId, 1, 0)

putCycleRoute(user, in) ==
  LET id == in.id
      body == sanitizeRequestBody(in.body)
      p == validateObjectId(id)
      v == validateCycleData(body)
  IN  IF ~p.next THEN Rejected(p.res)
      ELSE IF ~v.next THEN Rejected(v.res)
      ELSE IF ~dbHandle THEN DbUnavailable
      ELSE IF id \notin DOMAIN db.cycles THEN NotFound("Cycle not found", 1)
      ELSE IF db.cycles[id].user_id # Some(user.uid)
      THEN Forbidden("Access denied to this cycle", 1)
      ELSE Out(Send(HTTP_STATUS.OK,
                    formatSuccessResponse({Entry("cycles", id, WithPhase(body))},
                                          "Cycle updated successfully")),
               StoreUpdate(db, "cycles", id, body), nextId, 2, 0)

\* DELETE /cycles/:id answering without the call to deleteCycle.
deleteCycleRoute_KeepsDoc(user, in) ==
  LET id == in.id
      p == validateObjectId(id)
  IN  IF ~p.next THEN Rejected(p.res)
      ELSE IF ~dbHandle THEN DbUnavailable
      ELSE IF id \notin DOMAIN db.cycles THEN NotFound("Cycle not found", 1)
      ELSE IF db.cycles[id].user_id # Some(user.uid)
      THEN Forbidden("Access denied to this cycle", 1)
      ELSE Out(Send(HTTP_STATUS.OK, formatSuccessResponse({}, "Cycle deleted successfully")),
               db, nextId, 1, 0)

deleteCycleRoute(user, in) ==
  LET id == in.id
      p == validateObjectId(id)
  IN  IF ~p.next THEN Rejected(p.res)
      ELSE IF ~dbHandle THEN DbUnavailable
      ELSE IF id \notin DOMAIN db.cycles THEN NotFound("Cycle not found", 1)
      ELSE IF db.cycles[id].user_id # Some(user.uid)
      THEN Forbidden("Access denied to this cycle", 1)
      ELSE Out(Send(HTTP_STATUS.OK, formatSuccessResponse({}, "Cycle deleted successfully")),
               StoreDelete(db, "cycles", id), nextId, 2, 0)

\* ------------------------------------------------ nutrition, fitness, mood
validMealTypes == {"breakfast", "lunch", "dinner", "snack", "other"}

validateNutritionData(body) ==
  IF ~TruthyDate(body.log_date) \/ ~Has(body.meal_type)
  THEN BadRequest("Missing required fields")
  ELSE IF DateGetTime(Val(body.log_date)) = NaN
  THEN BadRequest("Invalid log_date format. Please use ISO date format")
  ELSE IF Val(body.meal_type) \notin validMealTypes
  THEN BadRequest("meal_type must be one of: breakfast, lunch, dinner, snack, other")
  ELSE Next_(NoUser)

validateFitnessData(body) ==
  IF ~Has(body.activity_type) \/ ~Has(body.duration_minutes)
  THEN BadRequest("Missing required fields")
  ELSE IF Val(body.duration_minutes) < 1 \/ Val(body.duration_minutes) > 480
  THEN BadRequest("duration_minutes must be between 1 and 480 minutes (8 hours)")
  ELSE Next_(NoUser)

validateMentalHealthData(body) ==
  IF ~Has(body.mood_rating)
  THEN BadRequest("Missing required fields: mood_rating")
  ELSE IF Val(body.mood_rating) < 1 \/ Val(body.mood_rating) > 10
  THEN BadRequest("mood_rating must be between 1 and 10")
  ELSE Next_(NoUser)

\* save*Log stores {user_id: userId, ...data, created_at}
saveLogDoc(userId, data) ==
  Spread([f \in DOMAIN data |-> IF f = "user_id" THEN Some(userId) ELSE Absent], data)

\* getNutritionLogs: the newest `limit` logs of the user, then, when a date is
\* given, those of them whose log_date falls on that date.
getNutritionLogs(userId, date, limit) ==
  LET results == QueryByUser("nutrition_logs", userId, limit)
  IN  IF TruthyDate(date)
      THEN {e \in results : Has(e.doc.log_date) /\ Val(e.doc.log_date).day = Val(date).day}
      ELSE results

getFitnessLogs(userId, limit) == QueryByUser("fitness_logs", userId, limit)
getMentalHealthLogs(userId, limit) == QueryByUser("mental_health_logs", userId, limit)
getRecentInsights(userId, limit) == QueryByUser("ai_insights", userId, limit)

getUserLatestData(userId) ==
  getCycles(userId, 1) \cup getNutritionLogs(userId, Absent, 5)
  \cup getFitnessLogs(userId, 5) \cup getMentalHealthLogs(userId, 5)

LimitOr(query, dflt) == IF Has(query.limit) THEN Val(query.limit) ELSE dflt

getNutritionRoute(user, in) ==
  LET q == validateQueryParams(in.query)
  IN  IF ~q.next THEN Rejected(q.res)
      ELSE IF ~dbHandle THEN DbUnavailable
      ELSE Out(Send(HTTP_STATUS.OK, formatSuccessResponse(
                 getNutritionLogs(user.uid, in.query.date, LimitOr(in.query, 30)),
                 "Nutrition logs retrieved successfully")), db, nextId, 1, 0)

\* The three POST routes of the logs: validate, then store the body with
\* user_id: req.userId.
postLogRoute(coll, v, user, rawBody, message) ==
  LET body == sanitizeRequestBody(rawBody)
      data == [body EXCEPT !.user_id = Some(user.uid)]
  IN  IF ~v.next THEN Rejected(v.res)
      ELSE IF ~dbHandle THEN DbUnavailable
      ELSE Out(Send(HTTP_STATUS.CREATED,
                    formatSuccessResponse({Entry(coll, nextId, data)}, message)),
               StoreAdd(db, coll, nextId, saveLogDoc(user.uid, data)), nextId + 1, 1, 0)

postNutritionRoute(user, in) ==
  postLogRoute("nutrition_logs", validateNutritionData(sanitizeRequestBody(in.body)),
               user, in.body, "Nutrition log created successfully")

postFitnessRoute(user, in) ==
  postLogRoute("fitness_logs", validateFitnessData(sanitizeRequestBody(in.body)),
               user, in.body, "Fitness log created successfully")

postMentalHealthRoute(user, in) ==
  postLogRoute("mental_health_logs", validateMentalHealthData(sanitizeRequestBody(in.body)),
               user, in.body, "Mental health log created successfully")

getFitnessRoute(user, in) ==
  LET q == validateQueryParams(in.query)
  IN  IF ~q.next THEN Rejected(q.res)
      ELSE IF ~dbHandle THEN DbUnavailable
      ELSE Out(Send(HTTP_STATUS.OK, formatSuccessResponse(
                 getFitnessLogs(user.uid, LimitOr(in.query, 30)),
                 "Fitness logs retrieved successfully")), db, nextId, 1, 0)

getMentalHealthRoute(user, in) ==
  LET q == validateQueryParams(in.query)
  IN  IF ~q.next THEN Rejected(q.res)
      ELSE IF ~dbHandle THEN DbUnavailable
      ELSE Out(Send(HTTP_STATUS.OK, formatSuccessResponse(
                 getMentalHealthLogs(user.uid, LimitOr(in.query, 30)),
                 "Mental health logs retrieved successfully")), db, nextId, 1, 0)

getSummaryRoute(user, in) ==
  IF ~dbHandle THEN DbUnavailable
  ELSE Out(Send(HTTP_STATUS.OK, formatSuccessResponse(
             getUserLatestData(user.uid), "Health data summary retrieved successfully")),
           db, nextId, 4, 0)

\* GET /stats answers with counts and averages; data is the set of documents
\* they are computed over.
getStatsRoute(user, in) ==
  IF ~dbHandle THEN DbUnavailable
  ELSE Out(Send(HTTP_STATUS.OK, formatSuccessResponse(
             getCycles(user.uid, 12) \cup getNutritionLogs(user.uid, Absent, 100)
             \cup getFitnessLogs(user.uid, 100) \cup getMentalHealthLogs(user.uid, 100),
             "Health statistics retrieved successfully")), db, nextId, 4, 0)

\* ------------------------------------------------------------- /api/ai
INSIGHT_TYPES ==
  {"general_health", "cycle_prediction", "nutrition_advice", "fitness_suggestion", "mood_analysis"}

validateInsightRequest(body) ==
  IF Has(body.type) /\ Val(body.type) \notin INSIGHT_TYPES
  THEN BadRequest("Invalid insight type")
  ELSE Next_(NoUser)

ServerError(message, sc, lc) ==
  Out(Send(HTTP_STATUS.INTERNAL_SERVER_ERROR,
           formatErrorResponse(message, HTTP_STATUS.INTERNAL_SERVER_ERROR)), db, nextId, sc, lc)

\* saveAIInsight with is_read: false written before the spread of insightData.
saveAIInsightDoc_SpreadLast(userId, insightData) ==
  Spread([f \in DOMAIN insightData |->
            IF f = "user_id" THEN Some(userId)
            ELSE IF f = "is_read" THEN Some(FALSE) ELSE Absent],
         insightData)

\* saveAIInsight stores {user_id: userId, ...insightData, is_read: false}
saveAIInsightDoc(userId, insightData) ==
  [Spread([f \in DOMAIN insightData |-> IF f = "user_id" THEN Some(userId) ELSE Absent],
          insightData) EXCEPT !.is_read = Some(FALSE)]

\* in.llmOk: the chat completion succeeds (generateHealthInsight returns the
\* insight) or fails (it returns null).
generateInsightRoute(user, in) ==
  LET body == sanitizeRequestBody(in.body)
      v == validateInsightRequest(body)
      type == IF Has(body.type) THEN Val(body.type) ELSE "general_health"
      insight == [user_id |-> Absent, type |-> Some(type), is_read |-> Absent]
  IN  IF ~v.next THEN Rejected(v.res)
      ELSE IF ~aiAvailable THEN ServerError("AI service is currently unavailable", 0, 0)
      ELSE IF ~dbHandle THEN DbUnavailable
      ELSE IF ~in.llmOk THEN ServerError("Failed to generate insight. Please try again.", 4, 1)
      ELSE Out(Send(HTTP_STATUS.CREATED,
                    formatSuccessResponse({Entry("ai_insights", nextId, insight)},
                                          "AI insight generated successfully")),
               StoreAdd(db, "ai_insights", nextId, saveAIInsightDoc(user.uid, insight)),
               nextId + 1, 5, 1)

\* POST /generate-multiple-insights. body.types is an array of type names;
\* in.llmOkFor[t]: the chat completion for type t succeeds.
\* generateMultipleInsights keeps the insights that are not null, and the
\* route saves those.
generateMultipleRoute(user, in) ==
  LET body == sanitizeRequestBody(in.body)
      types == IF Has(body.types) THEN Val(body.types) ELSE <<"general_health">>
      IsValid(t) == t \in INSIGHT_TYPES
      validTypes == SelectSeq(types, IsValid)
      Generated(t) == in.llmOkFor[t]
      insights == SelectSeq(validTypes, Generated)
      doc(k) == [user_id |-> Absent, type |-> Some(insights[k]), is_read |-> Absent]
      saved == [i \in nextId..(nextId + Len(insights) - 1) |->
                  saveAIInsightDoc(user.uid, doc(i - nextId + 1))]
  IN  IF Len(validTypes) = 0
      THEN Out(Send(HTTP_STATUS.BAD_REQUEST, formatErrorResponse(
                 "No valid insight types provided", HTTP_STATUS.BAD_REQUEST)), db, nextId, 0, 0)
      ELSE IF ~aiAvailable THEN ServerError("AI service is currently unavailable", 0, 0)
      ELSE IF ~dbHandle THEN DbUnavailable
      ELSE IF Len(insights) = 0
      THEN ServerError("Failed to generate any insights", 4, Len(validTypes))
      ELSE Out(Send(HTTP_STATUS.CREATED,
                    formatSuccessResponse({Entry("ai_insights", i, saved[i]) : i \in DOMAIN saved},
                                          "Multiple AI insights generated successfully")),
               [db EXCEPT !.ai_insights = @ @@ saved],
               nextId + Len(insights), 4 + Len(insights), Len(validTypes))

\* GET /quick-tip: a tip from the fallbackTips table while the AI service is
\* not configured, else the completion's text, or 500 when generateQuickTip
\* returns null. The tip travels as the document of one entry.
getQuickTipRoute(user, in) ==
  LET topic == IF Has(in.query.topic) THEN Val(in.query.topic) ELSE "menstrual health"
      fallback ==
        CASE topic = "menstrual health" ->
               "Stay hydrated and maintain a balanced diet rich in iron during your menstrual cycle."
          [] topic = "nutrition" ->
               "Focus on eating a variety of colorful fruits and vegetables to ensure you get essential nutrients."
          [] OTHER ->
               "Listen to your body and prioritize getting enough sleep for overall health and wellbeing."
      Tip(text, source) ==
        {Entry("quick_tip", 0, [user_id |-> Absent, tip |-> text, source |-> source])}
  IN  IF ~aiAvailable
      THEN Out(Send(HTTP_STATUS.OK, formatSuccessResponse(
                 Tip(fallback, "fallback"), "Quick tip retrieved successfully")),
               db, nextId, 0, 0)
      ELSE IF ~in.llmOk THEN ServerError("Failed to generate quick tip", 0, 1)
      ELSE Out(Send(HTTP_STATUS.OK, formatSuccessResponse(
                 Tip("completion", "ai_generated"), "Quick tip generated successfully")),
               db, nextId, 0, 1)

getInsightsRoute(user, in) ==
  IF ~dbHandle THEN DbUnavailable
  ELSE Out(Send(HTTP_STATUS.OK, formatSuccessResponse(
             getRecentInsights(user.uid, LimitOr(in.query, 10)),
             "AI insights retrieved successfully")), db, nextId, 1, 0)

\* globalErrorHandler on a plain Error (no ValidationError or CastError name,
\* no code) thrown after sc store calls: 401 when the message includes
\* 'Firebase', else 500 with err.message.
globalErrorHandler(message, sc) ==
  IF Contains(message, "Firebase")
  THEN Out(Send(HTTP_STATUS.UNAUTHORIZED,
                formatErrorResponse("Authentication error", HTTP_STATUS.UNAUTHORIZED)),
           db, nextId, sc, 0)
  ELSE ServerError(message, sc, 0)

\* PATCH /insights/:id/read: markInsightAsRead(id) is doc(id).update(...),
\* which the store rejects with NOT_FOUND when the document does not exist.
patchInsightReadRoute(user, in) ==
  LET p == validateObjectId(in.id)
  IN  IF ~p.next THEN Rejected(p.res)
      ELSE IF ~dbHandle THEN DbUnavailable
      ELSE IF in.id \notin DOMAIN db.ai_insights
      THEN globalErrorHandler(
             "Error marking insight as read: 5 NOT_FOUND: No document to update", 1)
      ELSE Out(Send(HTTP_STATUS.OK, formatSuccessResponse({}, "Insight marked as read")),
               StoreUpdate(db, "ai_insights", in.id,
                           [user_id |-> Absent, type |-> Absent, is_read |-> Some(TRUE)]),
               nextId, 1, 0)

\* DELETE /insights/:id answers success without a store call.
deleteInsightRoute(user, in) ==
  LET p == validateObjectId(in.id)
  IN  IF ~p.next THEN Rejected(p.res)
      ELSE IF ~dbHandle THEN DbUnavailable
      ELSE Out(Send(HTTP_STATUS.OK, formatSuccessResponse({}, "Insight deleted successfully")),
               db, nextId, 0, 0)

\* ------------------------------------------------------------ /api/users
\* doc(uid).set(data, {merge: true})
StoreSetMerge(d, coll, key, data) ==
  IF key \in DOMAIN d[coll]
  THEN [d EXCEPT ![coll][key] = Spread(@, data)]
  ELSE [d EXCEPT ![coll] = @ @@ (key :> data)]

allowedFields == {"display_name", "birth_date", "weight", "height", "time_zone", "language",
                  "notifications_enabled", "privacy_settings", "health_goals",
                  "cycle_length_average", "period_length_average"}

\* GET /profile: the token's data, and the stored profile when the read
\* gives one; the read sits in a try/catch of its own that swallows what it
\* throws (the TypeError of a null db handle included).
getProfileRoute(user, in) ==
  LET profile == IF dbHandle /\ ~Has(in.storeErr) /\ user.uid \in DOMAIN db.user_profiles
                 THEN {Entry("user_profiles", user.uid, db.user_profiles[user.uid])}
                 ELSE {}
  IN  [Out(Send(HTTP_STATUS.OK,
                formatSuccessResponse(profile, "User profile retrieved successfully")),
           db, nextId, IF dbHandle THEN 1 ELSE 0, 0)
       EXCEPT !.thrown = IF dbHandle THEN in.storeErr ELSE Absent]

putProfileRoute(user, in) ==
  LET filtered == [f \in DOMAIN in.body |-> IF f \in allowedFields THEN in.body[f] ELSE Absent]
      profileData == [filtered EXCEPT !.user_id = Some(user.uid)]
  IN  IF ~dbHandle THEN ServerError("Failed to update user profile", 0, 0)
      ELSE Out(Send(HTTP_STATUS.OK,
                    formatSuccessResponse({Entry("user_profiles", user.uid, profileData)},
                                          "User profile updated successfully")),
               StoreSetMerge(db, "user_profiles", user.uid, profileData), nextId, 1, 0)

\* PUT /settings building {user_id: req.userId, ...req.body}: the body's
\* user_id, when it has one, overwrites the caller's.
putSettingsRoute_BodyWins(user, in) ==
  LET settingsData == IF Has(in.body.user_id) THEN in.body
                      ELSE [in.body EXCEPT !.user_id = Some(user.uid)]
  IN  IF ~dbHandle THEN ServerError("Failed to update user settings", 0, 0)
      ELSE Out(Send(HTTP_STATUS.OK,
                    formatSuccessResponse({Entry("user_settings", user.uid, settingsData)},
                                          "User settings updated successfully")),
               StoreSetMerge(db, "user_settings", user.uid, settingsData), nextId, 1, 0)

putSettingsRoute(user, in) ==
  LET settingsData == [in.body EXCEPT !.user_id = Some(user.uid)]
  IN  IF ~dbHandle THEN ServerError("Failed to update user settings", 0, 0)
      ELSE Out(Send(HTTP_STATUS.OK,
                    formatSuccessResponse({Entry("user_settings", user.uid, settingsData)},
                                          "User settings updated successfully")),
               StoreSetMerge(db, "user_settings", user.uid, settingsData), nextId, 1, 0)

\* GET /dashboard: the latest data, and four counts (numbers only).
getDashboardRoute(user, in) ==
  IF ~dbHandle THEN ServerError("Failed to retrieve dashboard data", 0, 0)
  ELSE Out(Send(HTTP_STATUS.OK, formatSuccessResponse(
             getUserLatestData(user.uid), "Dashboard data retrieved successfully")),
           db, nextId, 8, 0)

getDataSummaryRoute(user, in) ==
  IF ~dbHandle THEN ServerError("Failed to retrieve user data summary", 0, 0)
  ELSE Out(Send(HTTP_STATUS.OK, formatSuccessResponse(
             getCycles(user.uid, 1000) \cup getNutritionLogs(user.uid, Absent, 1000)
             \cup getFitnessLogs(user.uid, 1000) \cup getMentalHealthLogs(user.uid, 1000)
             \cup getRecentInsights(user.uid, 100),
             "User data summary retrieved successfully")), db, nextId, 5, 0)

\* The documents of the collection d[c] that where('user_id', '==', uid) returns.
OwnedIn(d, c, uid) == {i \in DOMAIN d[c] : d[c][i].user_id = Some(uid)}

\* The store after a batch that deletes the documents refs, a set of
\* <<collection, id>>; deleting a missing document is no error.
BatchCommit(d, refs) ==
  [c \in Collections |-> [i \in {j \in DOMAIN d[c] : <<c, j>> \notin refs} |-> d[c][i]]]

\* DELETE /account without the confirm_email test.
deleteAccountRoute_NoConfirm(user, in) ==
  IF ~dbHandle THEN ServerError("Failed to delete user account data", 0, 0)
  ELSE Out(Send(HTTP_STATUS.OK, formatSuccessResponse({},
             "All user data deleted successfully. Please delete your Firebase Auth account from the app.")),
           BatchCommit(db, {<<c, i>> \in UNION {{c} \X DOMAIN db[c] : c \in Collections} :
                              i \in OwnedIn(db, c, user.uid)}),
           nextId, 8, 0)

\* DELETE /account, no other handler's store call falling between its
\* seven reads and its commit. With no db handle db.batch() throws and the
\* handler's catch answers.
deleteAccountRoute(user, in) ==
  IF in.body.confirm_email # Some(user.email)
  THEN Out(Send(HTTP_STATUS.BAD_REQUEST,
                formatErrorResponse("Email confirmation required for account deletion",
                                    HTTP_STATUS.BAD_REQUEST)), db, nextId, 0, 0)
  ELSE IF ~dbHandle THEN ServerError("Failed to delete user account data", 0, 0)
  ELSE Out(Send(HTTP_STATUS.OK, formatSuccessResponse({},
             "All user data deleted successfully. Please delete your Firebase Auth account from the app.")),
           BatchCommit(db, {<<c, i>> \in UNION {{c} \X DOMAIN db[c] : c \in Collections} :
                              i \in OwnedIn(db, c, user.uid)}),
           nextId, 8, 0)

\* ------------------------------------------------------- request inputs
\* A request past authentication is [id, body, query, llmOk, storeErr]: the
\* :id parameter, the JSON body, the query string, whether a chat completion
\* asked for while handling it succeeds, and the message of the error the
\* store rejects the handler's first call with (Absent: its calls succeed).
BodyUids == {Absent} \cup {Some(u) : u \in Uids}
NoBody == [user_id |-> Absent]
NoQuery == [limit |-> Absent, date |-> Absent]

\* An error message of the store's client library while the store cannot
\* be reached.
StoreErrorText == "14 UNAVAILABLE: No connection established"

\* The requests during which the store answers every call.
Inputs(ids, bodies, queries, llm) ==
  [id : ids, body : bodies, query : queries, llmOk : llm, storeErr : {Absent}]

OwnerCycleBodies ==
  [user_id : BodyUids, start_date : {Absent, Some(IsoDate(0))}, cycle_length : {Absent},
   period_duration : {Absent}, current_phase : {Absent}]
UpdateCycleBodies ==
  [user_id : BodyUids, start_date : {Some(IsoDate(0))}, cycle_length : {Some(30)},
   period_duration : {Absent}, current_phase : {Absent}]
NutritionBodies ==
  [user_id : BodyUids, log_date : {Absent, Some(IsoDate(0))}, meal_type : {Some("lunch")}]
FitnessBodies ==
  [user_id : BodyUids, activity_type : {Some("cardio")}, duration_minutes : {Some(0), Some(30)}]
MentalHealthBodies == [user_id : BodyUids, mood_rating : {Absent, Some(7)}]
InsightBodies == [user_id : BodyUids, type : {Absent, Some("horoscope")}, is_read : {Absent}]
ProfileBodies == [user_id : BodyUids, display_name : {Some("Luna")}]
SettingsBodies == [user_id : BodyUids, theme : {Some("dark")}]

Queries == [limit : {Absent, Some(0), Some(1)}, date : {Absent}]
NutritionQueries == [limit : {Absent, Some(1)}, date : {Absent, Some(IsoDate(0))}]
InsightQueries == [limit : {Absent, Some(1)}, date : {Absent}]

\* ------------------------------------------------------------- actions
NoResp ==
  [router |-> "", route |-> "none", hdr |-> [kind |-> "none", token |-> ""], caller |-> "",
   id |-> 0, bodyUid |-> Absent, status |-> 0,
   body |-> [success |-> TRUE, error |-> "", message |-> "", statusCode |-> 0, data |-> {},
             timestamp |-> Absent],
   storeCalls |-> 0, llmCalls |-> 0, entered |-> FALSE, thrown |-> Absent]

\* The request is answered: resp is the response on its way to the client,
\* with the parts of the request the pipeline has read.
Answer(router, route, hdr, caller, id, bodyUid, out) ==
  /\ resp' = [router |-> router, route |-> route, hdr |-> hdr, caller |-> caller,
              id |-> id, bodyUid |-> bodyUid,
              status |-> out.res.status, body |-> out.res.body,
              storeCalls |-> out.storeCalls, llmCalls |-> out.llmCalls,
              entered |-> out.entered, thrown |-> out.thrown]
  /\ db' = out.db
  /\ nextId' = out.nextId
  /\ creator' = [c \in Collections |->
                   [i \in DOMAIN out.db[c] |->
                      IF i \in DOMAIN db[c] THEN creator[c][i] ELSE caller]]
  /\ deleted' = IF route = "DELETE /cycles/:id" /\ out.res.status = HTTP_STATUS.OK
                THEN deleted \cup {id} ELSE deleted
  /\ UNCHANGED <<now, phaseVars, limitVars, flightVars, initialized, dbHandle, aiAvailable>>

HealthRouter == "/api/health-data"
AiRouter == "/api/ai"
UsersRouter == "/api/users"

\* The route tables of the three routers: the handler chain of each route.
Dispatch(route, user, in) ==
  CASE route = "GET /cycles" -> getCyclesRoute(user, in)
    [] route = "POST /cycles" -> postCyclesRoute(user, in)
    [] route = "GET /cycles/:id" -> getCycleByIdRoute(user, in)
    [] route = "PUT /cycles/:id" -> putCycleRoute(user, in)
    [] route = "DELETE /cycles/:id" -> deleteCycleRoute(user, in)
    [] route = "GET /nutrition" -> getNutritionRoute(user, in)
    [] route = "POST /nutrition" -> postNutritionRoute(user, in)
    [] route = "GET /fitness" -> getFitnessRoute(user, in)
    [] route = "POST /fitness" -> postFitnessRoute(user, in)
    [] route = "GET /mental-health" -> getMentalHealthRoute(user, in)
    [] route = "POST /mental-health" -> postMentalHealthRoute(user, in)
    [] route = "GET /summary" -> getSummaryRoute(user, in)
    [] route = "GET /stats" -> getStatsRoute(user, in)
    [] route = "POST /generate-insight" -> generateInsightRoute(user, in)
    [] route = "POST /generate-multiple-insights" -> generateMultipleRoute(user, in)
    [] route = "GET /quick-tip" -> getQuickTipRoute(user, in)
    [] route = "GET /insights" -> getInsightsRoute(user, in)
    [] route = "PATCH /insights/:id/read" -> patchInsightReadRoute(user, in)
    [] route = "DELETE /insights/:id" -> deleteInsightRoute(user, in)
    [] route = "GET /profile" -> getProfileRoute(user, in)
    [] route = "PUT /profile" -> putProfileRoute(user, in)
    [] route = "PUT /settings" -> putSettingsRoute(user, in)
    [] route = "GET /dashboard" -> getDashboardRoute(user, in)
    [] route = "GET /data-summary" -> getDataSummaryRoute(user, in)
    [] route = "DELETE /account" -> deleteAccountRoute(user, in)

\* The FirestoreService method a route calls first, as the prefix its catch
\* block puts before the store's message (`Error getting cycles: ${...}`).
WrapPrefix(route) ==
  CASE route = "GET /cycles" -> "Error getting cycles: "
    [] route = "POST /cycles" -> "Error saving cycle: "
    [] route \in {"GET /cycles/:id", "PUT /cycles/:id", "DELETE /cycles/:id"} ->
         "Error getting cycle: "
    [] route = "GET /nutrition" -> "Error getting nutrition logs: "
    [] route = "POST /nutrition" -> "Error saving nutrition log: "
    [] route = "GET /fitness" -> "Error getting fitness logs: "
    [] route = "POST /fitness" -> "Error saving fitness log: "
    [] route = "GET /mental-health" -> "Error getting mental health logs: "
    [] route = "POST /mental-health" -> "Error saving mental health log: "
    [] route = "GET /summary" -> "Error getting user latest data: Error getting cycles: "
    [] route = "GET /stats" -> "Error getting cycles: "
    [] route = "GET /insights" -> "Error getting insights: "
    [] route = "PATCH /insights/:id/read" -> "Error marking insight as read: "
    [] OTHER -> ""

\* The first store call of a handler rejects with message err: the routes
\* of /api/users and POST /generate-insight catch it themselves and answer
\* a message of their own; elsewhere the FirestoreService method rethrows
\* it wrapped, asyncErrorHandler passes it to globalErrorHandler. Nothing
\* was written.
StoreCallThrows(route, err) ==
  LET own == CASE route = "PUT /profile" -> "Failed to update user profile"
               [] route = "PUT /settings" -> "Failed to update user settings"
               [] route = "GET /dashboard" -> "Failed to retrieve dashboard data"
               [] route = "GET /data-summary" -> "Failed to retrieve user data summary"
               [] route = "POST /generate-insight" ->
                    "Failed to generate insight. Please try again."
               [] OTHER -> ""
      out == IF own # "" THEN ServerError(own, 1, 0)
             ELSE globalErrorHandler(WrapPrefix(route) \o err, 1)
  IN  [out EXCEPT !.thrown = Some(err)]

\* A route's handler chain run on a request: as the route table says, or
\* as the handler's catch path says when it reaches a store call that throws.
Handle(route, user, in) ==
  LET out == Dispatch(route, user, in)
  IN  IF Has(in.storeErr) /\ out.storeCalls > 0 /\ route # "GET /profile"
      THEN StoreCallThrows(route, Val(in.storeErr))
      ELSE out

\* One request to a protected router, read when no response is on its way,
\* from its arrival at the router to the response: the router's
\* authentication answers it before a route is matched, or the route `route`
\* handles one of the requests `inputs`.
Request(router, route, inputs) ==
  \E hdr \in Headers :
    LET a == RouterAuth(hdr)
    IN  \/ /\ ~a.next
           /\ Answer(router, "", hdr, "", 0, Absent, Rejected(a.res))
        \/ /\ a.next
           /\ \E in \in inputs :
                Answer(router, route, hdr, a.user.uid, in.id, in.body.user_id,
                       Handle(route, a.user, in))

\* Documents in the store.
DocCount == Cardinality(UNION {{<<c, i>> : i \in DOMAIN db[c]} : c \in Collections})

GetCycles ==
  /\ resp = NoResp
  /\ Request(HealthRouter, "GET /cycles", Inputs({0}, {NoBody}, Queries, {TRUE}))

PostCyclesWith(bodies) ==
  /\ resp = NoResp
  /\ nextId <= MaxDocs
  /\ Request(HealthRouter, "POST /cycles", Inputs({0}, bodies, {NoQuery}, {TRUE}))

GetCycleById ==
  /\ resp = NoResp
  /\ Request(HealthRouter, "GET /cycles/:id",
          Inputs(RequestIds, {NoBody}, {NoQuery}, {TRUE}))

PutCycleWith(bodies) ==
  /\ resp = NoResp
  /\ Request(HealthRouter, "PUT /cycles/:id",
          Inputs(RequestIds, bodies, {NoQuery}, {TRUE}))

DeleteCycle ==
  /\ resp = NoResp
  /\ Request(HealthRouter, "DELETE /cycles/:id",
          Inputs(RequestIds, {NoBody}, {NoQuery}, {TRUE}))

GetNutrition ==
  /\ resp = NoResp
  /\ Request(HealthRouter, "GET /nutrition",
          Inputs({0}, {NoBody}, NutritionQueries, {TRUE}))

PostNutrition ==
  /\ resp = NoResp
  /\ nextId <= MaxDocs
  /\ Request(HealthRouter, "POST /nutrition",
             Inputs({0}, NutritionBodies, {NoQuery}, {TRUE}))

GetFitness ==
  /\ resp = NoResp
  /\ Request(HealthRouter, "GET /fitness", Inputs({0}, {NoBody}, Queries, {TRUE}))

PostFitness ==
  /\ resp = NoResp
  /\ nextId <= MaxDocs
  /\ Request(HealthRouter, "POST /fitness",
             Inputs({0}, FitnessBodies, {NoQuery}, {TRUE}))

GetMentalHealth ==
  /\ resp = NoResp
  /\ Request(HealthRouter, "GET /mental-health",
          Inputs({0}, {NoBody}, Queries, {TRUE}))

PostMentalHealth ==
  /\ resp = NoResp
  /\ nextId <= MaxDocs
  /\ Request(HealthRouter, "POST /mental-health",
             Inputs({0}, MentalHealthBodies, {NoQuery}, {TRUE}))

GetSummary ==
  /\ resp = NoResp
  /\ Request(HealthRouter, "GET /summary", Inputs({0}, {NoBody}, {NoQuery}, {TRUE}))

GetStats ==
  /\ resp = NoResp
  /\ Request(HealthRouter, "GET /stats", Inputs({0}, {NoBody}, {NoQuery}, {TRUE}))

GenerateInsight ==
  /\ resp = NoResp
  /\ nextId <= MaxDocs
  /\ Request(AiRouter, "POST /generate-insight",
             Inputs({0}, InsightBodies, {NoQuery}, BOOLEAN))

GetInsights ==
  /\ resp = NoResp
  /\ Request(AiRouter, "GET /insights", Inputs({0}, {NoBody}, InsightQueries, {TRUE}))

PatchInsightRead ==
  /\ resp = NoResp
  /\ Request(AiRouter, "PATCH /insights/:id/read",
          Inputs(RequestIds, {NoBody}, {NoQuery}, {TRUE}))

DeleteInsight ==
  /\ resp = NoResp
  /\ Request(AiRouter, "DELETE /insights/:id",
          Inputs(RequestIds, {NoBody}, {NoQuery}, {TRUE}))

PutProfile ==
  /\ resp = NoResp
  /\ DocCount < MaxDocs
  /\ Request(UsersRouter, "PUT /profile",
             Inputs({0}, ProfileBodies, {NoQuery}, {TRUE}))

PutSettings ==
  /\ resp = NoResp
  /\ DocCount < MaxDocs
  /\ Request(UsersRouter, "PUT /settings",
             Inputs({0}, SettingsBodies, {NoQuery}, {TRUE}))

GetDashboard ==
  /\ resp = NoResp
  /\ Request(UsersRouter, "GET /dashboard",
          Inputs({0}, {NoBody}, {NoQuery}, {TRUE}))

GetDataSummary ==
  /\ resp = NoResp
  /\ Request(UsersRouter, "GET /data-summary",
          Inputs({0}, {NoBody}, {NoQuery}, {TRUE}))

\* The client has received the response; the next request is read.
Deliver ==
  /\ resp # NoResp
  /\ resp' = NoResp
  /\ UNCHANGED <<now, phaseVars, limitVars, flightVars, db, nextId, initialized, dbHandle, aiAvailable,
                 creator, deleted>>

Init ==
  /\ now = 0
  /\ phaseIn = Absent
  /\ phaseOut = "none"
  /\ phaseAgain = NoCall
  /\ db = [c \in Collections |-> EmptyColl]
  /\ nextId = 1
  /\ initialized \in BOOLEAN
  /\ dbHandle \in {b \in BOOLEAN : b => initialized}
  /\ aiAvailable \in BOOLEAN
  /\ resp = NoResp
  /\ creator = [c \in Collections |-> EmptyColl]
  /\ deleted = {}
  /\ LimiterInit
  /\ FlightInit

PostCycles == PostCyclesWith(OwnerCycleBodies)
PutCycle == PutCycleWith(UpdateCycleBodies)

Next ==
  \/ GetCycles
  \/ PostCycles
  \/ GetCycleById
  \/ PutCycle
  \/ DeleteCycle
  \/ GetNutrition
  \/ PostNutrition
  \/ GetFitness
  \/ PostFitness
  \/ GetMentalHealth
  \/ PostMentalHealth
  \/ GetSummary
  \/ GetStats
  \/ GenerateInsight
  \/ GetInsights
  \/ PatchInsightRead
  \/ DeleteInsight
  \/ PutProfile
  \/ PutSettings
  \/ GetDashboard
  \/ GetDataSummary
  \/ Deliver

Spec == Init /\ [][Next]_vars

\* ------------------------------------------- store-failure specification
\* Every route that calls the store, on a request with a valid body, while
\* the store answers or rejects the handler's first call.
StoreRoutes ==
  {"GET /cycles", "POST /cycles", "GET /cycles/:id", "PUT /cycles/:id", "DELETE /cycles/:id",
   "GET /nutrition", "POST /nutrition", "GET /fitness", "POST /fitness",
   "GET /mental-health", "POST /mental-health", "GET /summary", "GET /stats",
   "POST /generate-insight", "GET /insights", "PATCH /insights/:id/read",
   "GET /profile", "PUT /profile", "PUT /settings", "GET /dashboard", "GET /data-summary"}

\* The routes that create a record.
CreateRoutes ==
  {"POST /cycles", "POST /nutrition", "POST /fitness", "POST /mental-health",
   "POST /generate-insight", "PUT /profile", "PUT /settings"}

RouterOf(route) ==
  IF route \in {"POST /generate-insight", "GET /insights", "PATCH /insights/:id/read"}
  THEN AiRouter
  ELSE IF route \in {"GET /profile", "PUT /profile", "PUT /settings", "GET /dashboard",
                     "GET /data-summary"}
  THEN UsersRouter
  ELSE HealthRouter

\* A body the route's validator accepts.
ValidBody(route) ==
  CASE route \in {"POST /cycles", "PUT /cycles/:id"} ->
         [user_id |-> Absent, start_date |-> Some(IsoDate(0)), cycle_length |-> Absent,
          period_duration |-> Absent, current_phase |-> Absent]
    [] route = "POST /nutrition" ->
         [user_id |-> Absent, log_date |-> Some(IsoDate(0)), meal_type |-> Some("lunch")]
    [] route = "POST /fitness" ->
         [user_id |-> Absent, activity_type |-> Some("cardio"), duration_minutes |-> Some(30)]
    [] route = "POST /mental-health" -> [user_id |-> Absent, mood_rating |-> Some(7)]
    [] route = "POST /generate-insight" ->
         [user_id |-> Absent, type |-> Absent, is_read |-> Absent]
    [] route = "PUT /profile" -> [user_id |-> Absent, display_name |-> Some("Luna")]
    [] route = "PUT /settings" -> [user_id |-> Absent, theme |-> Some("dark")]
    [] OTHER -> NoBody

StoreRequest ==
  /\ resp = NoResp
  /\ \E route \in StoreRoutes :
       /\ route \in CreateRoutes => (nextId <= MaxDocs /\ DocCount < MaxDocs)
       /\ Request(RouterOf(route), route,
                  [id : RequestIds, body : {ValidBody(route)}, query : {NoQuery},
                   llmOk : {TRUE}, storeErr : {Absent, Some(StoreErrorText)}])

NextFail ==
  \/ StoreRequest
  \/ Deliver

SpecFail == Init /\ [][NextFail]_vars

\* ------------------------------------------------- insight specification
\* The routes of /api/ai that ask the LLM service for a completion, each
\* completion succeeding or failing.
MultipleInputs ==
  [id : {0},
   body : [user_id : {Absent},
           types : {Absent, Some(<<"horoscope">>), Some(<<"general_health", "mood_analysis">>)}],
   query : {NoQuery}, llmOk : {TRUE}, storeErr : {Absent},
   llmOkFor : [{"general_health", "mood_analysis"} -> BOOLEAN]]

QuickTipInputs ==
  [id : {0}, body : {NoBody},
   query : [limit : {Absent}, date : {Absent},
            topic : {Absent, Some("nutrition"), Some("astrology")}],
   llmOk : BOOLEAN, storeErr : {Absent}]

GenerateMultiple ==
  /\ resp = NoResp
  /\ \E in \in MultipleInputs :
       /\ nextId + Cardinality({t \in DOMAIN in.llmOkFor : in.llmOkFor[t]}) <= MaxDocs + 1
       /\ Request(AiRouter, "POST /generate-multiple-insights", {in})

QuickTip ==
  /\ resp = NoResp
  /\ Request(AiRouter, "GET /quick-tip", QuickTipInputs)

NextAi ==
  \/ GenerateInsight
  \/ GenerateMultiple
  \/ QuickTip
  \/ GetInsights
  \/ Deliver

SpecAi == Init /\ [][NextAi]_vars

\* ----------------------------------------- rate-limiter specification
\* The limiter stage of app.js on a stream of requests while the clock
\* advances. A request to /api/health or /health skips the limiter
\* (healthCheckBypass sets req.skipRateLimit); any other runs ipRateLimit.
InitLimit ==
  /\ now = 0
  /\ phaseIn = Absent
  /\ phaseOut = "none"
  /\ phaseAgain = NoCall
  /\ db = [c \in Collections |-> EmptyColl]
  /\ nextId = 1
  /\ initialized = TRUE
  /\ dbHandle = TRUE
  /\ aiAvailable = TRUE
  /\ resp = NoResp
  /\ creator = [c \in Collections |-> EmptyColl]
  /\ deleted = {}
  /\ LimiterInit
  /\ FlightInit

Tick ==
  /\ now < MaxClock
  /\ now' = now + 1
  /\ UNCHANGED <<phaseVars, storeVars, limitVars, flightVars>>

\* A request that is no health check, the count of an address let run up
\* to cap. limited.prior is the count its address had in the Map before
\* it (0: no entry).
LimitedRequest(cap) ==
  \E ip \in Ips :
    LET r == ipRateLimit(requests, ip, now)
        prior == IF ip \in DOMAIN requests THEN requests[ip].count ELSE 0
    IN  /\ r.requests[ip].count <= cap
        /\ requests' = r.requests
        /\ limited' = [ip |-> ip, url |-> "/api/health-data/cycles", status |-> r.status,
                       prior |-> prior]
        /\ passed' = IF r.status = 429 THEN passed
                     ELSE [passed EXCEPT ![ip] = Append(@, [at |-> now, window |-> r.window])]
        /\ UNCHANGED <<now, phaseVars, storeVars, flightVars>>

\* The count of an address is let run one past the limit.
ApiRequest == LimitedRequest(MAX_REQUESTS + 1)

HealthCheck ==
  \E ip \in Ips :
    /\ limited' = [ip |-> ip, url |-> "/api/health", status |-> 0, prior |-> 0]
    /\ UNCHANGED <<now, phaseVars, storeVars, flightVars, requests, passed>>

NextLimit ==
  \/ Tick
  \/ ApiRequest
  \/ HealthCheck

SpecLimit == InitLimit /\ [][NextLimit]_vars

\* A client that keeps sending while it is rejected: the count of an
\* address is let run two past the limit.
FloodRequest == LimitedRequest(MAX_REQUESTS + 2)

NextFlood ==
  \/ Tick
  \/ FloodRequest

SpecFlood == InitLimit /\ [][NextFlood]_vars

\* ----------------------------------------------- cycles specification
\* The five /cycles routes alone, with the bodies a client may send: with
\* or without a start_date, a cycle_length, a current_phase of its own.
AnyCycleBodies ==
  [user_id : {Absent}, start_date : {Absent, Some(IsoDate(0))},
   cycle_length : {Absent, Some(30)}, period_duration : {Absent},
   current_phase : {Absent, Some(CYCLE_PHASES.LUTEAL)}]

PostCyclesAny == PostCyclesWith(AnyCycleBodies)
PutCycleAny == PutCycleWith(AnyCycleBodies)

NextCycles ==
  \/ GetCycles
  \/ PostCyclesAny
  \/ GetCycleById
  \/ PutCycleAny
  \/ DeleteCycle
  \/ Deliver

SpecCycles == Init /\ [][NextCycles]_vars

\* --------------------------------------------- nutrition specification
\* Nutrition logs of two dates are created and listed with a date filter
\* and a limit.
LogDates == {IsoDate(0), IsoDate(1)}
DatedNutritionBodies ==
  [user_id : {Absent}, log_date : {Some(d) : d \in LogDates}, meal_type : {Some("lunch")}]
DatedNutritionQueries ==
  [limit : {Absent} \cup {Some(k) : k \in 1..MaxLogs},
   date : {Absent} \cup {Some(d) : d \in LogDates}]

PostNutritionDated ==
  /\ resp = NoResp
  /\ nextId <= MaxLogs
  /\ Request(HealthRouter, "POST /nutrition",
             Inputs({0}, DatedNutritionBodies, {NoQuery}, {TRUE}))

GetNutritionDated ==
  /\ resp = NoResp
  /\ Request(HealthRouter, "GET /nutrition",
             Inputs({0}, {NoBody}, DatedNutritionQueries, {TRUE}))

NextNutrition ==
  \/ PostNutritionDated
  \/ GetNutritionDated
  \/ Deliver

SpecNutrition == Init /\ [][NextNutrition]_vars

\* -------------------------------------------- validation specification
\* Cycles are created and updated with bodies on both sides of every test
\* of validateCycleData: a start_date that is missing, empty, unparseable or
\* a date; a cycle_length and a period_duration that are missing, 0, below,
\* inside or above the accepted range.
CheckedCycleBodies ==
  [user_id : {Absent},
   start_date : {Absent, Some(EmptyDate), Some(GarbageDate), Some(IsoDate(0))},
   cycle_length : {Absent, Some(0), Some(20), Some(28), Some(36)},
   period_duration : {Absent, Some(0), Some(1), Some(5), Some(9)},
   current_phase : {Absent}]

PostCyclesChecked == PostCyclesWith(CheckedCycleBodies)
PutCycleChecked == PutCycleWith(CheckedCycleBodies)

NextValidate ==
  \/ PostCyclesChecked
  \/ PutCycleChecked
  \/ Deliver

SpecValidate == Init /\ [][NextValidate]_vars

\* --------------------------------------------- read-flag specification
\* Insights are generated, saved, listed, marked as read and deleted.
\* SaveInsight is FirestoreService.saveAIInsight called with insight data
\* that carries no is_read, or one of its own.
InsightData ==
  [user_id : {Absent}, type : {Some("general_health")},
   is_read : {Absent, Some(TRUE), Some(FALSE)}]

SaveInsight ==
  /\ resp = NoResp
  /\ dbHandle
  /\ nextId <= MaxDocs
  /\ \E u \in Uids : \E insightData \in InsightData :
       /\ db' = StoreAdd(db, "ai_insights", nextId, saveAIInsightDoc(u, insightData))
       /\ creator' = [creator EXCEPT !["ai_insights"] = @ @@ (nextId :> u)]
  /\ nextId' = nextId + 1
  /\ UNCHANGED <<now, phaseVars, limitVars, flightVars, initialized, dbHandle, aiAvailable, resp, deleted>>

NextRead ==
  \/ GenerateInsight
  \/ SaveInsight
  \/ GetInsights
  \/ PatchInsightRead
  \/ DeleteInsight
  \/ Deliver

SpecRead == Init /\ [][NextRead]_vars

\* ------------------------------------------ interleaving specification
\* Handlers of POST /cycles, PUT /cycles/:id and DELETE /cycles/:id run in
\* the slots, past authentication and validation and with the store
\* available. A handler is suspended at each await: PUT and DELETE between
\* getCycleById and updateCycle / deleteCycle, so the other slot's store
\* calls can fall between its read and its write.
InitRace == Init /\ initialized /\ dbHandle /\ aiAvailable

RaceRoutes == {"POST /cycles", "PUT /cycles/:id", "DELETE /cycles/:id"}
RaceCreate ==
  [user_id |-> Absent, start_date |-> Some(IsoDate(0)), cycle_length |-> Absent,
   period_duration |-> Absent, current_phase |-> Absent]
RaceUpdate == [RaceCreate EXCEPT !.cycle_length = Some(30)]

\* What the store's client library rejects update() of a missing document with.
NoDocumentText == "5 NOT_FOUND: No document to update"

\* The existence and ownership check without the ownership part.
CheckExisting_NoOwner(caller, id) ==
  IF id \notin DOMAIN db.cycles THEN NotFound("Cycle not found", 1).res
  ELSE Send(0, formatSuccessResponse({}, ""))

\* existingCycle = await getCycleById(id) and the two tests on it: the
\* response sent, status 0 when the handler goes on to its write.
CheckExisting(caller, id) ==
  IF id \notin DOMAIN db.cycles THEN NotFound("Cycle not found", 1).res
  ELSE IF db.cycles[id].user_id # Some(caller)
  THEN Forbidden("Access denied to this cycle", 1).res
  ELSE Send(0, formatSuccessResponse({}, ""))

RaceUnchanged ==
  UNCHANGED <<now, phaseVars, limitVars, initialized, dbHandle, aiAvailable, resp, deleted,
              conn>>

\* A request arrives at a free slot. POST has no read: its first store
\* call is the add.
BeginRequest ==
  \E s \in Slots : \E route \in RaceRoutes : \E u \in Uids : \E id \in Ids :
    /\ pending[s] = NoPending
    /\ route = "POST /cycles" =>
         /\ id = 1
         /\ nextId + Cardinality({t \in Slots : pending[t].route = "POST /cycles"}) <= MaxDocs
    /\ pending' = [pending EXCEPT ![s] =
                     [NoPending EXCEPT !.route = route, !.caller = u,
                                       !.id = IF route = "POST /cycles" THEN 0 ELSE id,
                                       !.pc = IF route = "POST /cycles" THEN "write" ELSE "read"]]
    /\ UNCHANGED <<db, nextId, creator>>
    /\ RaceUnchanged

\* getCycleById resolves; the handler answers 404 or 403, or goes on.
ReadCycle ==
  \E s \in Slots :
    LET r == CheckExisting(pending[s].caller, pending[s].id)
    IN  /\ pending[s].pc = "read"
        /\ pending' = [pending EXCEPT ![s] =
                         IF r.status = 0 THEN [@ EXCEPT !.pc = "write"]
                         ELSE [@ EXCEPT !.pc = "done", !.status = r.status,
                                        !.error = r.body.error]]
        /\ UNCHANGED <<db, nextId, creator>>
        /\ RaceUnchanged

\* The handler's write reaches the store and the response is built: add(),
\* delete() (which succeeds on a missing document), or update(), which the
\* store rejects when the document is missing; updateCycle rethrows and
\* globalErrorHandler answers.
WriteCycle ==
  \E s \in Slots :
    LET p == pending[s]
        missing == p.id \notin DOMAIN db.cycles
        failed == globalErrorHandler("Error updating cycle: " \o NoDocumentText, 2).res
    IN  /\ p.pc = "write"
        /\ db' = CASE p.route = "POST /cycles" ->
                       StoreAdd(db, "cycles", nextId, saveCycleDoc(p.caller, RaceCreate))
                    [] p.route = "PUT /cycles/:id" ->
                       IF missing THEN db ELSE StoreUpdate(db, "cycles", p.id, RaceUpdate)
                    [] OTHER -> StoreDelete(db, "cycles", p.id)
        /\ nextId' = IF p.route = "POST /cycles" THEN nextId + 1 ELSE nextId
        /\ creator' = IF p.route = "POST /cycles"
                      THEN [creator EXCEPT !.cycles = @ @@ (nextId :> p.caller)]
                      ELSE [c \in Collections |-> [i \in DOMAIN db'[c] |-> creator[c][i]]]
        /\ pending' = [pending EXCEPT ![s] =
                         CASE p.route = "POST /cycles" ->
                                [@ EXCEPT !.pc = "done", !.status = HTTP_STATUS.CREATED]
                           [] p.route = "PUT /cycles/:id" /\ missing ->
                                [@ EXCEPT !.pc = "done", !.status = failed.status,
                                          !.error = failed.body.error]
                           [] OTHER -> [@ EXCEPT !.pc = "done", !.status = HTTP_STATUS.OK]]
        /\ RaceUnchanged

\* The response leaves; the slot is free again.
Respond ==
  \E s \in Slots :
    /\ pending[s].pc = "done"
    /\ pending' = [pending EXCEPT ![s] = NoPending]
    /\ UNCHANGED <<db, nextId, creator>>
    /\ RaceUnchanged

NextRace ==
  \/ BeginRequest
  \/ ReadCycle
  \/ WriteCycle
  \/ Respond

SpecRace == InitRace /\ [][NextRace]_vars

\* ----------------------------------------------- timeout specification
\* One request at a time passes timeoutHandler and is handled by a route
\* wrapped in asyncErrorHandler, while the clock advances. conn.sent is what
\* went out to the client; conn.refused counts the calls of
\* res.status().json() made after the headers were sent, which the runtime
\* rejects by throwing.
ConnUnchanged == UNCHANGED <<phaseVars, storeVars, limitVars, pending>>

\* res.status(status).json(body) on the connection c at time t.
ResJson(c, status, t) ==
  IF c.headersSent
  THEN [c EXCEPT !.refused = @ + 1]
  ELSE [c EXCEPT !.headersSent = TRUE, !.sent = Append(@, [status |-> status, at |-> t])]

\* The callback of timeoutHandler's setTimeout.
TimerCallback(c, t) ==
  IF ~c.headersSent
  THEN [ResJson(c, 408, t) EXCEPT !.timer = "fired"]
  ELSE [c EXCEPT !.timer = "fired"]

\* timeoutHandler: the timer is set, the 'finish' listener added, next().
Arrive ==
  /\ conn = NoConn
  /\ conn' = [NoConn EXCEPT !.handler = "running", !.timer = "armed", !.armedAt = now]
  /\ UNCHANGED now
  /\ ConnUnchanged

\* The route handler's awaits are over and it sends its response. When the
\* call throws, the rejection goes to next (asyncErrorHandler) and on to
\* globalErrorHandler.
HandlerResponds ==
  /\ conn.handler = "running"
  /\ \E status \in {HTTP_STATUS.OK, HTTP_STATUS.NOT_FOUND} :
       conn' = [ResJson(conn, status, now) EXCEPT
                  !.handler = IF conn.headersSent THEN "failed" ELSE "done"]
  /\ UNCHANGED now
  /\ ConnUnchanged

\* An await of the route handler rejects: asyncErrorHandler calls next(err).
HandlerThrows ==
  /\ conn.handler = "running"
  /\ conn' = [conn EXCEPT !.handler = "failed"]
  /\ UNCHANGED now
  /\ ConnUnchanged

\* globalErrorHandler sends its error response.
ErrorHandlerResponds ==
  /\ conn.handler = "failed"
  /\ conn' = [ResJson(conn, HTTP_STATUS.INTERNAL_SERVER_ERROR, now) EXCEPT !.handler = "done"]
  /\ UNCHANGED now
  /\ ConnUnchanged

\* The timer expires, no earlier than TIMEOUT after it was set.
TimerFires ==
  /\ conn.timer = "armed"
  /\ now - conn.armedAt >= TIMEOUT
  /\ conn' = TimerCallback(conn, now)
  /\ UNCHANGED now
  /\ ConnUnchanged

\* The response has been handed to the system: 'finish' is emitted and the
\* listener clears the timer.
ResFinish ==
  /\ conn.headersSent
  /\ ~conn.finished
  /\ conn' = [conn EXCEPT !.finished = TRUE,
                          !.timer = IF @ = "armed" THEN "cleared" ELSE @]
  /\ UNCHANGED now
  /\ ConnUnchanged

\* The exchange is over; the next request can arrive.
ConnClose ==
  /\ conn.handler = "done"
  /\ conn.finished
  /\ conn' = NoConn
  /\ UNCHANGED now
  /\ ConnUnchanged

ClockTick ==
  /\ now < MaxClock
  /\ now' = now + 1
  /\ UNCHANGED conn
  /\ ConnUnchanged

NextTimeout ==
  \/ Arrive
  \/ HandlerResponds
  \/ HandlerThrows
  \/ ErrorHandlerResponds
  \/ TimerFires
  \/ ResFinish
  \/ ConnClose
  \/ ClockTick

SpecTimeout == InitRace /\ [][NextTimeout]_vars

\* ----------------------------------------------- account specification
\* Records, a profile and settings are created, and accounts are deleted
\* with a confirm_email that is missing, the caller's, or another one.
AccountBodies ==
  [user_id : {Absent}, confirm_email : {Absent} \cup {Some(EmailOf(u)) : u \in Uids}]

DeleteAccount ==
  /\ resp = NoResp
  /\ Request(UsersRouter, "DELETE /account", Inputs({0}, AccountBodies, {NoQuery}, {TRUE}))

NextAccount ==
  \/ PostCycles
  \/ PostNutrition
  \/ PutProfile
  \/ PutSettings
  \/ DeleteAccount
  \/ Deliver

SpecAccount == Init /\ [][NextAccount]_vars

\* ------------------------------------- account-deletion interleavings
\* Handlers of DELETE /account, past the confirm_email test and with the
\* store available, run in the slots: one read per collection, in the
\* order of the handler's list, each adding the documents found to the
\* batch, then the commit. Between two of these steps both principals'
\* creates (one add() each) reach the store.
AccountCollections ==
  <<"cycles", "nutrition_logs", "fitness_logs", "mental_health_logs", "ai_insights",
    "user_profiles", "user_settings">>

BeginPurge ==
  \E s \in Slots : \E u \in Uids :
    /\ pending[s] = NoPending
    /\ pending' = [pending EXCEPT ![s] =
                     [NoPending EXCEPT !.route = "DELETE /account", !.caller = u,
                                       !.pc = "read", !.step = 1]]
    /\ UNCHANGED <<db, nextId, creator>>
    /\ RaceUnchanged

\* snapshot = await collection(name).where('user_id', '==', req.userId).get()
\* and batch.delete of every document of the snapshot.
ReadCollection ==
  \E s \in Slots :
    LET p == pending[s]
        c == AccountCollections[p.step]
    IN  /\ p.route = "DELETE /account"
        /\ p.pc = "read"
        /\ pending' = [pending EXCEPT ![s] =
                         [@ EXCEPT !.batch = @ \cup {<<c, i>> : i \in OwnedIn(db, c, p.caller)},
                                   !.step = @ + 1,
                                   !.pc = IF p.step = Len(AccountCollections)
                                          THEN "commit" ELSE "read"]]
        /\ UNCHANGED <<db, nextId, creator>>
        /\ RaceUnchanged

\* await batch.commit() and the success response.
CommitBatch ==
  \E s \in Slots :
    /\ pending[s].pc = "commit"
    /\ db' = BatchCommit(db, pending[s].batch)
    /\ creator' = [c \in Collections |-> [i \in DOMAIN db'[c] |-> creator[c][i]]]
    /\ pending' = [pending EXCEPT ![s] = [@ EXCEPT !.pc = "done", !.status = HTTP_STATUS.OK]]
    /\ UNCHANGED nextId
    /\ RaceUnchanged

\* The add() of a POST /cycles or POST /nutrition of either principal.
CreateRecord ==
  \E u \in Uids : \E c \in {"cycles", "nutrition_logs"} :
    /\ nextId <= MaxDocs
    /\ db' = StoreAdd(db, c, nextId,
                      IF c = "cycles" THEN saveCycleDoc(u, RaceCreate)
                      ELSE saveLogDoc(u, [user_id |-> Absent, log_date |-> Some(IsoDate(0)),
                                          meal_type |-> Some("lunch")]))
    /\ nextId' = nextId + 1
    /\ creator' = [creator EXCEPT ![c] = @ @@ (nextId :> u)]
    /\ UNCHANGED pending
    /\ RaceUnchanged

NextPurge ==
  \/ BeginPurge
  \/ ReadCollection
  \/ CommitBatch
  \/ CreateRecord
  \/ Respond

SpecPurge == InitRace /\ [][NextPurge]_vars

\* ------------------------------------------------ update specification
\* Cycles that started today or a week ago are created, read and updated,
\* with bodies that give a period_duration of 8 or a cycle_length of 30 or
\* omit them.
PastCycleBodies ==
  [user_id : {Absent}, start_date : {Some(IsoDate(0)), Some(IsoDate(0 - 7))},
   cycle_length : {Absent, Some(30)}, period_duration : {Absent, Some(8)},
   current_phase : {Absent}]

PostCyclesPast == PostCyclesWith(PastCycleBodies)
PutCyclePast == PutCycleWith(PastCycleBodies)

NextUpdate ==
  \/ PostCyclesPast
  \/ PutCyclePast
  \/ GetCycleById
  \/ Deliver

SpecUpdate == Init /\ [][NextUpdate]_vars

\* ------------------------------------------- classifier specification
\* The classifier as a pure function: Init draws the cycle argument and the
\* clock, ClassifyPhase applies calculateCyclePhase.
PhaseStartDates ==
  {Absent, Some(EmptyDate), Some(GarbageDate), Some(IsoDate(0)), Some(IsoDate(5))}
PhaseCycleLengths == {Absent, Some(0), Some(10), Some(14), Some(21), Some(28), Some(35)}
PhasePeriodDurations == {Absent, Some(0), Some(2), Some(5), Some(8), Some(14), Some(16)}

PhaseCycles ==
  {Absent} \cup
  {Some(c) : c \in [user_id : {Some("uA")}, start_date : PhaseStartDates,
                    cycle_length : PhaseCycleLengths,
                    period_duration : PhasePeriodDurations, current_phase : {Absent}]}

\* The cycle objects of the second call: the stored ones and the same with
\* another owner or a stored current_phase.
PhaseCyclesAgain ==
  {Absent} \cup
  {Some(c) : c \in [user_id : {Some(u) : u \in Uids}, start_date : PhaseStartDates,
                    cycle_length : PhaseCycleLengths,
                    period_duration : PhasePeriodDurations,
                    current_phase : {Absent, Some(CYCLE_PHASES.LUTEAL)}]}

InitPhase ==
  /\ now \in 0..MaxNow
  /\ phaseIn \in PhaseCycles
  /\ phaseOut = "none"
  /\ phaseAgain = NoCall
  /\ db = [c \in Collections |-> EmptyColl]
  /\ nextId = 1
  /\ initialized = TRUE
  /\ dbHandle = TRUE
  /\ aiAvailable = TRUE
  /\ resp = NoResp
  /\ creator = [c \in Collections |-> EmptyColl]
  /\ deleted = {}
  /\ LimiterInit
  /\ FlightInit

ClassifyPhase ==
  /\ phaseOut = "none"
  /\ phaseOut' = calculateCyclePhase(phaseIn, now)
  /\ UNCHANGED <<now, phaseIn, phaseAgain, storeVars, limitVars, flightVars>>

\* A second call at the same instant on a cycle object with the same
\* start_date, cycle_length and period_duration; its other properties are
\* chosen afresh.
ClassifyAgain ==
  /\ phaseOut # "none"
  /\ phaseAgain = NoCall
  /\ \E c \in PhaseCyclesAgain :
       /\ Has(c) = Has(phaseIn)
       /\ Has(c) => \A f \in {"start_date", "cycle_length", "period_duration"} :
                      Val(c)[f] = Val(phaseIn)[f]
       /\ phaseAgain' = [cycle |-> c, phase |-> calculateCyclePhase(c, now)]
  /\ UNCHANGED <<now, phaseIn, phaseOut, storeVars, limitVars, flightVars>>

NextPhase ==
  \/ ClassifyPhase
  \/ ClassifyAgain

SpecPhase == InitPhase /\ [][NextPhase]_vars

\* ------------------------------------------------------------ properties
\* The routes that address one record by its id, and the collection each
\* looks the id up in.
ByIdRoutes ==
  {"GET /cycles/:id", "PUT /cycles/:id", "DELETE /cycles/:id",
   "PATCH /insights/:id/read", "DELETE /insights/:id"}
CollOf(route) ==
  IF route \in {"PATCH /insights/:id/read", "DELETE /insights/:id"}
  THEN "ai_insights" ELSE "cycles"

\* The routes that list or aggregate.
ListRoutes ==
  {"GET /cycles", "GET /nutrition", "GET /fitness", "GET /mental-health", "GET /summary",
   "GET /stats", "GET /insights", "GET /dashboard", "GET /data-summary"}

\* The documents of collection c a step has written: new, or changed.
Written(c) ==
  {i \in DOMAIN db'[c] : i \notin DOMAIN db[c] \/ db'[c][i] # db[c][i]}

\* C1: an authenticated request that reads, updates, deletes or marks read,
\* by id, a record whose user_id is another principal's uid is answered 403
\* and leaves the store as it was.
C1_ForeignRecordForbidden ==
  [][(/\ resp'.route \in ByIdRoutes
      /\ resp'.id \in DOMAIN db[CollOf(resp'.route)]
      /\ db[CollOf(resp'.route)][resp'.id].user_id # Some(resp'.caller))
     => (resp'.status = HTTP_STATUS.FORBIDDEN /\ db' = db)]_vars

\* C2: an authenticated by-id request that passes validation and whose id
\* names no stored record is answered 404 while the store is available.
C2_MissingRecordNotFound ==
  [][(/\ resp'.route \in ByIdRoutes
      /\ dbHandle
      /\ resp'.status # HTTP_STATUS.BAD_REQUEST
      /\ resp'.id \notin DOMAIN db[CollOf(resp'.route)])
     => resp'.status = HTTP_STATUS.NOT_FOUND]_vars

\* C3: every document a successful create request writes carries the uid of
\* the verified token as user_id, whatever user_id the body carried.
C3_CreateStampsCaller ==
  [][(resp'.route \in CreateRoutes /\ resp'.body.success)
     => \A c \in Collections : \A i \in Written(c) :
          db'[c][i].user_id = Some(resp'.caller)]_vars

C3_Witness ==
  /\ resp.route \in CreateRoutes
  /\ resp.body.success
  /\ Has(resp.bodyUid) /\ Val(resp.bodyUid) # resp.caller
  /\ \E e \in resp.body.data :
       /\ e.id \in DOMAIN db[e.coll]
       /\ db[e.coll][e.id].user_id = Some(resp.caller)

\* C4: in every reachable state every stored record's user_id is the uid of
\* the principal whose request created it: no create, update, mark-read or
\* delete changes an owner.
C4_OwnerImmutable ==
  \A c \in Collections : \A i \in DOMAIN db[c] : db[c][i].user_id = Some(creator[c][i])

C4_Witness ==
  /\ resp.route = "PUT /cycles/:id"
  /\ resp.body.success
  /\ Has(resp.bodyUid) /\ Val(resp.bodyUid) # resp.caller
  /\ db.cycles[resp.id].cycle_length = Some(30)
  /\ db.cycles[resp.id].user_id = Some(resp.caller)

C6_RejectedCredentialUnauthorized ==
  (/\ resp.router # ""
   /\ resp.hdr.kind = "bearer"
   /\ (~initialized \/ ~AdminVerifyIdToken(resp.hdr.token).ok))
  => (resp.status = HTTP_STATUS.UNAUTHORIZED /\ ~resp.entered)

C6_Witness ==
  /\ resp.router = HealthRouter
  /\ resp.hdr = [kind |-> "bearer", token |-> "tokNoProject"]
  /\ initialized
  /\ resp.status = HTTP_STATUS.UNAUTHORIZED

\* C7: every record a list or aggregate response carries has the caller's
\* uid as user_id.
C7_ListsOnlyOwnRecords ==
  resp.route \in ListRoutes
  => \A e \in resp.body.data : e.doc.user_id = Some(resp.caller)

C7_Witness ==
  /\ resp.route = "GET /fitness"
  /\ resp.body.success
  /\ \E i \in DOMAIN db.fitness_logs : db.fitness_logs[i].user_id # Some(resp.caller)

\* C8: the classifier returns one of the six phase names on every input: a
\* missing cycle, a missing, empty or unparseable start_date, missing or zero
\* lengths included; it never throws.
C8_ClosedPhaseSet ==
  phaseOut # "none"
  => phaseOut \in {CYCLE_PHASES.MENSTRUAL, CYCLE_PHASES.FOLLICULAR, CYCLE_PHASES.OVULATION,
                   CYCLE_PHASES.LUTEAL, CYCLE_PHASES.NEW_CYCLE, CYCLE_PHASES.UNKNOWN}

C8_Witness ==
  /\ phaseOut = CYCLE_PHASES.NEW_CYCLE
  /\ Has(phaseIn)
  /\ Val(phaseIn).start_date = Some(GarbageDate)
  /\ Val(phaseIn).cycle_length = Some(0)

\* Whole days elapsed since the start date of the classifier's argument.
DaysOf(cycle) == (now - Val(cycle.start_date).day * TicksPerDay) \div TicksPerDay

\* The table of the phase: first matching row.
PhaseTable(d, P, L) ==
  IF d <= P THEN "menstrual"
  ELSE IF d <= 13 THEN "follicular"
  ELSE IF d <= 15 THEN "ovulation"
  ELSE IF d <= L THEN "luteal"
  ELSE "new_cycle"

\* The classifier has answered for a cycle with a start date that parses.
ClassifiedDated ==
  /\ phaseOut # "none"
  /\ Has(phaseIn)
  /\ Has(Val(phaseIn).start_date)
  /\ Val(Val(phaseIn).start_date).kind = "iso"

\* C9 as stated: the phase is the first matching row of the table with
\* P = period_duration, 5 if absent, and L = cycle_length, 28 if absent.
C9_TableDefaultsWhenAbsent ==
  ClassifiedDated
  => LET c == Val(phaseIn)
         P == IF Has(c.period_duration) THEN Val(c.period_duration) ELSE 5
         L == IF Has(c.cycle_length) THEN Val(c.cycle_length) ELSE 28
     IN  phaseOut = PhaseTable(DaysOf(c), P, L)

\* C9: the phase is the first matching row of the table with
\* P = period_duration, 5 if absent or 0, and L = cycle_length, 28 if absent
\* or 0; P > 13 and L < 15 included.
C9_TableDefaultsWhenAbsentOrZero ==
  ClassifiedDated
  => LET c == Val(phaseIn)
         P == IF Has(c.period_duration) /\ Val(c.period_duration) # 0
              THEN Val(c.period_duration) ELSE 5
         L == IF Has(c.cycle_length) /\ Val(c.cycle_length) # 0
              THEN Val(c.cycle_length) ELSE 28
     IN  phaseOut = PhaseTable(DaysOf(c), P, L)

C9_Witness ==
  /\ ClassifiedDated
  /\ Val(phaseIn).period_duration = Some(14)
  /\ Val(phaseIn).cycle_length = Some(10)
  /\ DaysOf(Val(phaseIn)) = 15
  /\ phaseOut = CYCLE_PHASES.OVULATION

\* C10: a cycle without a start_date is classified unknown, whatever its
\* other fields are.
C10_NoStartDateUnknown ==
  (phaseOut # "none" /\ Has(phaseIn) /\ ~Has(Val(phaseIn).start_date))
  => phaseOut = CYCLE_PHASES.UNKNOWN

C10_Witness ==
  /\ phaseOut = CYCLE_PHASES.UNKNOWN
  /\ Has(phaseIn)
  /\ ~Has(Val(phaseIn).start_date)
  /\ Val(phaseIn).cycle_length = Some(35)
  /\ Val(phaseIn).period_duration = Some(16)
  /\ now = MaxNow

\* C11: a cycle whose start date lies in the future (d < 0), with a
\* period_duration that is absent or in 2..8, is classified menstrual.
C11_FutureStartMenstrual ==
  (/\ ClassifiedDated
   /\ DaysOf(Val(phaseIn)) < 0
   /\ \/ ~Has(Val(phaseIn).period_duration)
      \/ Val(Val(phaseIn).period_duration) \in 2..8)
  => phaseOut = CYCLE_PHASES.MENSTRUAL

C11_Witness ==
  /\ ClassifiedDated
  /\ DaysOf(Val(phaseIn)) = -5
  /\ Val(phaseIn).period_duration = Some(2)
  /\ phaseOut = CYCLE_PHASES.MENSTRUAL

\* C12: a second call of the classifier at the same instant, on a cycle
\* with the same start_date, cycle_length and period_duration, returns what
\* the first call returned, whatever the other properties of the cycle
\* object are; elapsed days from -5 to 60 and beyond are covered.
C12_SameInputsSamePhase ==
  phaseAgain # NoCall => phaseAgain.phase = phaseOut

C12_Witness ==
  /\ ClassifiedDated
  /\ DaysOf(Val(phaseIn)) = 60
  /\ phaseAgain # NoCall
  /\ Val(phaseAgain.cycle).user_id # Val(phaseIn).user_id
  /\ Val(phaseAgain.cycle).current_phase = Some(CYCLE_PHASES.LUTEAL)
  /\ phaseAgain.phase = CYCLE_PHASES.NEW_CYCLE

\* C13: no stored cycle document contains current_phase, whatever bodies
\* POST /cycles and PUT /cycles/:id were sent.
C13_PhaseNeverStored ==
  \A i \in DOMAIN db.cycles : ~Has(db.cycles[i].current_phase)

\* The principal a valid token of uid u authenticates.
Principal(u) == [uid |-> u, email |-> EmailOf(u)]

\* The requests on /cycles/:id that name cycle id, with any client body.
ByIdCycleInputs(id) == Inputs({id}, AnyCycleBodies, {NoQuery}, {TRUE})

\* The entries of the cycle list GET /cycles answers uid u without a limit.
CycleListOf(u) ==
  getCyclesRoute(Principal(u), [id |-> 0, body |-> NoBody, query |-> NoQuery,
                                llmOk |-> TRUE, storeErr |-> Absent]).res.body.data

C15_EnvelopeAndStatusMap ==
  (resp # NoResp /\ ~resp.body.success)
  => /\ resp.body.statusCode = resp.status
     /\ resp.body.error # ""
     /\ Has(resp.body.timestamp)
     /\ resp.status =
          IF resp.caller = "" THEN HTTP_STATUS.UNAUTHORIZED
          ELSE IF ~resp.entered THEN HTTP_STATUS.BAD_REQUEST
          ELSE IF ~dbHandle \/ resp.route \notin ByIdRoutes
          THEN HTTP_STATUS.INTERNAL_SERVER_ERROR
          ELSE IF resp.id \notin DOMAIN db[CollOf(resp.route)] THEN HTTP_STATUS.NOT_FOUND
          ELSE IF db[CollOf(resp.route)][resp.id].user_id # Some(resp.caller)
          THEN HTTP_STATUS.FORBIDDEN
          ELSE HTTP_STATUS.INTERNAL_SERVER_ERROR

\* C16: an authenticated request whose handler runs while the db handle is
\* null, or whose store call throws, is answered 500 with an error body,
\* never with a success body.
C16_StoreFailureIs500 ==
  (/\ resp # NoResp
   /\ resp.entered
   /\ resp.route \in StoreRoutes
   /\ ~dbHandle \/ Has(resp.thrown))
  => (resp.status = HTTP_STATUS.INTERNAL_SERVER_ERROR /\ ~resp.body.success)

\* C17: when a store call has thrown in a handler, the error text of the
\* response does not contain the message the store threw.
C17_StoreMessageNotReturned ==
  Has(resp.thrown) => ~Contains(resp.body.error, Val(resp.thrown))

\* An /api/ai request is answered 500 with one of the fixed messages of a
\* failed generation, and nothing is saved.
CleanFailure(out) ==
  /\ out.res.status = HTTP_STATUS.INTERNAL_SERVER_ERROR
  /\ out.res.body.error \in
       {"Failed to generate insight. Please try again.", "Failed to generate any insights",
        "Failed to generate quick tip"}
  /\ out.db = db

\* C18: for every insight or quick-tip request during which an LLM call is
\* made and fails, the response is 500 with a fixed application message and
\* no insight is saved (a request served without an LLM call gets the
\* static fallback tip).
C18_LlmFailureDegrades ==
  \A u \in Uids :
    /\ \A in \in Inputs({0}, InsightBodies, {NoQuery}, {FALSE}) :
         LET out == Handle("POST /generate-insight", Principal(u), in)
         IN  out.llmCalls > 0 => CleanFailure(out)
    /\ \A in \in QuickTipInputs :
         LET out == Handle("GET /quick-tip", Principal(u), in)
         IN  /\ (out.llmCalls > 0 /\ ~in.llmOk) => CleanFailure(out)
             /\ out.llmCalls = 0 => \A e \in out.res.body.data : e.doc.source = "fallback"
    /\ \A in \in MultipleInputs :
         LET out == Handle("POST /generate-multiple-insights", Principal(u), in)
             types == IF Has(in.body.types) THEN Val(in.body.types) ELSE <<"general_health">>
             asked == {types[k] : k \in DOMAIN types} \cap INSIGHT_TYPES
         IN  (out.llmCalls > 0 /\ \E t \in asked : ~in.llmOkFor[t]) => CleanFailure(out)

\* The entries GET /insights answers uid u without a limit parameter.
InsightListOf(u) ==
  getInsightsRoute(Principal(u), [id |-> 0, body |-> NoBody, query |-> NoQuery,
                                  llmOk |-> TRUE, storeErr |-> Absent]).res.body.data

\* C20: when DELETE /insights/:id by the owner of the insight is answered
\* 200 'Insight deleted successfully', the insight is absent from the
\* owner's GET /insights from then on.
C20_DeletedInsightGone ==
  [][(/\ resp'.route = "DELETE /insights/:id"
      /\ resp'.status = HTTP_STATUS.OK
      /\ resp'.body.message = "Insight deleted successfully"
      /\ resp'.id \in DOMAIN db.ai_insights
      /\ db.ai_insights[resp'.id].user_id = Some(resp'.caller))
     => (resp.id \notin {e.id : e \in InsightListOf(resp.caller)})']_vars

\* The requests of ip admitted at a time in the set T.
AdmittedIn(ip, T) == {k \in DOMAIN passed[ip] : passed[ip][k].at \in T}

\* C19 as stated: for every address and every interval of WINDOW_SIZE ticks,
\* at most MAX_REQUESTS requests of the address that are no health checks
\* are admitted past the limiter.
C19_AtMostMaxPerInterval ==
  \A ip \in Ips : \A t \in 0..MaxClock :
    Cardinality(AdmittedIn(ip, t..(t + WINDOW_SIZE - 1))) <= MAX_REQUESTS

\* C19: whenever a request of an address is admitted, the address has at
\* most MAX_REQUESTS admitted requests in each window of the limiter (the
\* window the address's first request opens, lasting WINDOW_SIZE from it)
\* and at most 2 * MAX_REQUESTS in any interval of WINDOW_SIZE ticks; and
\* every further request of an address in a window that already holds
\* MAX_REQUESTS admitted ones is answered 429 and not admitted.
C19_AtMostMaxPerWindow ==
  [][/\ \A ip \in Ips : passed'[ip] # passed[ip] =>
         /\ \A j \in DOMAIN passed'[ip] :
              LET w == passed'[ip][j].window
                  inW == {k \in DOMAIN passed'[ip] : passed'[ip][k].window = w}
              IN  /\ Cardinality(inW) <= MAX_REQUESTS
                  /\ passed'[ip][j].at \in w..(w + WINDOW_SIZE)
         /\ \A t \in 0..MaxClock :
              Cardinality(AdmittedIn(ip, t..(t + WINDOW_SIZE - 1)))' <= 2 * MAX_REQUESTS
     /\ (/\ requests' # requests
         /\ limited'.ip \in DOMAIN requests
         /\ now - requests[limited'.ip].timestamp <= WINDOW_SIZE
         /\ Cardinality({k \in DOMAIN passed[limited'.ip] :
                           passed[limited'.ip][k].window = requests[limited'.ip].timestamp})
              = MAX_REQUESTS)
        => (limited'.status = 429 /\ passed' = passed)]_vars

\* An address has filled one window, then a second one, and its next
\* request in the second window has been answered 429.
C19_Witness ==
  /\ limited.status = 429
  /\ Len(passed[limited.ip]) = 2 * MAX_REQUESTS
  /\ passed[limited.ip][1].window # passed[limited.ip][2 * MAX_REQUESTS].window

\* The stored nutrition logs of u whose log_date falls on the date d.
LogsOn(u, d) ==
  {i \in DOMAIN db["nutrition_logs"] :
     /\ db["nutrition_logs"][i].user_id = Some(u)
     /\ Has(db["nutrition_logs"][i].log_date)
     /\ Val(db["nutrition_logs"][i].log_date).day = d.day}

Min(a, b) == IF a < b THEN a ELSE b

\* C21: GET /nutrition with a date filter returns min(k, limit) logs, all of
\* the caller and of that date, where k is the number of the caller's stored
\* logs of that date - whatever logs of other dates were created later.
C21_DateFilterReturnsMin ==
  dbHandle =>
    \A u \in Uids : \A q \in DatedNutritionQueries :
      Has(q.date) =>
        LET out == getNutritionRoute(Principal(u),
                     [id |-> 0, body |-> NoBody, query |-> q, llmOk |-> TRUE,
                      storeErr |-> Absent])
            got == out.res.body.data
        IN  /\ out.res.status = HTTP_STATUS.OK
            /\ {e.id : e \in got} \subseteq LogsOn(u, Val(q.date))
            /\ Cardinality(got) = Min(Cardinality(LogsOn(u, Val(q.date))), LimitOr(q, 30))

\* The cycle bodies C22 is about: start_date missing or unparseable,
\* cycle_length outside 21..35, or period_duration outside 2..8.
InvalidCycle(body) ==
  \/ ~TruthyDate(body.start_date)
  \/ DateGetTime(Val(body.start_date)) = NaN
  \/ Has(body.cycle_length) /\ Val(body.cycle_length) \notin 21..35
  \/ Has(body.period_duration) /\ Val(body.period_duration) \notin 2..8

\* C22: a POST /cycles or PUT /cycles/:id of an authenticated caller whose
\* body is invalid is answered 400 and leaves the store as it was, with the
\* store available or not.
C22_InvalidCycleRejected ==
  \A u \in Uids : \A route \in {"POST /cycles", "PUT /cycles/:id"} :
    \A in \in Inputs(RequestIds, CheckedCycleBodies, {NoQuery}, {TRUE}) :
      InvalidCycle(in.body) =>
        LET out == Handle(route, Principal(u), in)
        IN  /\ out.res.status = HTTP_STATUS.BAD_REQUEST
            /\ out.db = db

\* C23: an insight is stored with is_read = false when it is created,
\* whatever is_read its insight data carries; an insight that is read stays
\* read; and is_read changes only in the step that answers a mark-as-read.
C23_ReadFlagMonotonic ==
  [][\A i \in DOMAIN db'.ai_insights :
       IF i \notin DOMAIN db.ai_insights
       THEN db'.ai_insights[i].is_read = Some(FALSE)
       ELSE /\ db.ai_insights[i].is_read = Some(TRUE)
               => db'.ai_insights[i].is_read = Some(TRUE)
            /\ db'.ai_insights[i].is_read # db.ai_insights[i].is_read
               => /\ resp'.route = "PATCH /insights/:id/read"
                  /\ resp'.status = HTTP_STATUS.OK
                  /\ db'.ai_insights[i].is_read = Some(TRUE)]_vars

\* A stored insight has been marked as read, and a later mark-as-read of it
\* has been answered.
C23_Witness ==
  /\ \E i \in DOMAIN db.ai_insights : db.ai_insights[i].is_read = Some(TRUE)
  /\ resp.route = "PATCH /insights/:id/read"
  /\ resp.status = HTTP_STATUS.OK

\* C24: in every step of every interleaving, a cycle that is modified or
\* deleted is modified or deleted by a handler whose caller is the owner of
\* the cycle.
C24_OnlyOwnerWrites ==
  [][\A i \in DOMAIN db.cycles :
       (i \notin DOMAIN db'.cycles \/ db'.cycles[i] # db.cycles[i])
       => \E s \in Slots :
            /\ pending'[s] # pending[s]
            /\ pending[s].id = i
            /\ Some(pending[s].caller) = db.cycles[i].user_id]_vars

\* A handler of another principal was answered 403 on a cycle while a
\* handler of the owner stands between its read of that cycle and its write.
C24_Witness ==
  \E s, t \in Slots :
    /\ pending[s].pc = "done" /\ pending[s].status = HTTP_STATUS.FORBIDDEN
    /\ pending[t].pc = "write" /\ pending[t].route # "POST /cycles"
    /\ pending[t].id = pending[s].id
    /\ pending[t].caller # pending[s].caller

\* C25: a PUT whose write finds the cycle gone (deleted after the PUT's
\* existence check) ends in 404, and the cycle is not re-created.
C25_LateDeleteIsNotFound ==
  [][\A s \in Slots :
       (/\ pending[s].route = "PUT /cycles/:id"
        /\ pending[s].pc = "write"
        /\ pending'[s].pc = "done"
        /\ pending[s].id \notin DOMAIN db.cycles)
       => /\ pending'[s].status = HTTP_STATUS.NOT_FOUND
          /\ pending[s].id \notin DOMAIN db'.cycles]_vars

\* C26: a request gets at most one response, and exactly one once its
\* handling is over; a handler that responds within TIMEOUT of the arrival
\* keeps the 408 from being sent; and no call to send a response is made
\* after a response was sent.
C26_OneResponseOneAttempt ==
  /\ Len(conn.sent) <= 1
  /\ (conn.handler = "done" /\ conn.finished) => Len(conn.sent) = 1
  /\ \A k \in DOMAIN conn.sent :
       conn.sent[k].status = 408 => conn.sent[k].at - conn.armedAt >= TIMEOUT
  /\ conn.refused = 0

\* C28: DELETE /account with a confirm_email that is not the caller's email
\* is answered 400 and leaves every collection as it was.
C28_WrongEmailDeletesNothing ==
  \A u \in Uids : \A in \in Inputs({0}, AccountBodies, {NoQuery}, {TRUE}) :
    in.body.confirm_email # Some(EmailOf(u)) =>
      LET out == Handle("DELETE /account", Principal(u), in)
      IN  /\ out.res.status = HTTP_STATUS.BAD_REQUEST
          /\ out.db = db

\* A caller with stored data has been answered 400 on DELETE /account, and
\* the data is still stored.
C28_Witness ==
  /\ resp.route = "DELETE /account"
  /\ resp.status = HTTP_STATUS.BAD_REQUEST
  /\ \E c \in Collections : OwnedIn(db, c, resp.caller) # {}

\* C27: when DELETE /account answers success, no document of the caller
\* is left in any collection and every document of another user is as it
\* was - also with the caller's creates between the handler's reads and
\* its commit.
C27_AccountFullyDeleted ==
  [][\A s \in Slots :
       (pending[s].pc = "commit" /\ pending'[s].pc = "done"
        /\ pending'[s].status = HTTP_STATUS.OK)
       => \A c \in Collections :
            /\ OwnedIn(db', c, pending[s].caller) = {}
            /\ \A i \in DOMAIN db[c] :
                 db[c][i].user_id # Some(pending[s].caller)
                 => i \in DOMAIN db'[c] /\ db'[c][i] = db[c][i]]_vars

\* C29: the current_phase in the response of a successful PUT /cycles/:id
\* equals the current_phase GET /cycles/:id returns for that cycle at the
\* same instant.
C29_PutPhaseIsGetPhase ==
  (resp.route = "PUT /cycles/:id" /\ resp.status = HTTP_STATUS.OK) =>
    LET get == getCycleByIdRoute(Principal(resp.caller),
                 [id |-> resp.id, body |-> NoBody, query |-> NoQuery, llmOk |-> TRUE,
                  storeErr |-> Absent])
    IN  /\ get.res.status = HTTP_STATUS.OK
        /\ \A e \in resp.body.data : \A g \in get.res.body.data :
             e.doc.current_phase = g.doc.current_phase

\* C30: a request of an address that arrives more than WINDOW_SIZE after
\* the first request of the address's window is admitted and opens a new
\* window, whatever the count had run up to; a rejected request adds one to
\* the count and leaves the window start alone; and a request of one
\* address changes no other address's entry, except to drop an expired one.
C30_WindowNeverExtended ==
  [][requests' # requests =>
       LET ip == limited'.ip
       IN  /\ (ip \in DOMAIN requests /\ now - requests[ip].timestamp > WINDOW_SIZE)
              => /\ limited'.status = 0
                 /\ requests'[ip] = [count |-> 1, timestamp |-> now]
           /\ limited'.status = 429
              => /\ requests'[ip].timestamp = requests[ip].timestamp
                 /\ requests'[ip].count = requests[ip].count + 1
                 /\ now - requests[ip].timestamp <= WINDOW_SIZE
           /\ \A o \in DOMAIN requests \ {ip} :
                IF o \in DOMAIN requests' THEN requests'[o] = requests[o]
                ELSE now - requests[o].timestamp > WINDOW_SIZE]_vars

\* An address was rejected twice in a window and, after the window, has
\* been admitted again.
C30_Witness ==
  /\ limited.status = 0
  /\ limited.prior = MAX_REQUESTS + 2
  /\ limited.ip \in DOMAIN requests
  /\ requests[limited.ip] = [count |-> 1, timestamp |-> now]
====
